---- MODULE Spec2Model ----
(***************************************************************************)
(* parallel-universe-db: the optimize routes (sequential and parallel),    *)
(* the TigerService fork lifecycle and the promotion transaction.          *)
(*                                                                         *)
(* Two versions of the backend live in the repository:                     *)
(*   - sequential route  (src/unnamed/part_002) with the TigerService of   *)
(*     src/unnamed/part_001 (createFork falls back to demo mode),          *)
(*   - parallel route    (src/backend/src/routes/optimize.js) with the     *)
(*     TigerService of src/backend/src/services/tigerService.js            *)
(*     (createFork throws when the CLI fails).                             *)
(* Every await point of a handler is one action; the synchronous code up   *)
(* to the next await belongs to the action.                                *)
(***************************************************************************)
EXTENDS Integers, Sequences, FiniteSets, TLC

\* ---------------------------------------------------------------- bounds
MaxStrategies == 2      \* longest strategies list a request carries
MaxChanges == 2         \* longest changes list a promote request carries

\* ------------------------------------------------------------- constants
ReqIds == {1, 2}        \* optimize requests the server can have in flight
PromIds == {1, 2}       \* promote requests in flight

KnownStrategies == {"index", "query", "cache", "schema"}
UnknownStrategy == "vacuum"
StrategyIds == KnownStrategies \cup {UnknownStrategy}

universeNames == <<"alpha", "beta", "gamma", "delta">>

\* strategyMap[strategy].name; "undefined" when the key is absent
strategyMap(strategy) ==
  CASE strategy = "index" -> "IndexAgent"
    [] strategy = "query" -> "QueryAgent"
    [] strategy = "cache" -> "CacheAgent"
    [] strategy = "schema" -> "SchemaAgent"
    [] OTHER -> "undefined"

Min(a, b) == IF a < b THEN a ELSE b

\* Array.prototype.slice(0, n)
slice(s, n) == SubSeq(s, 1, Min(Len(s), n))

\* injective sequences over S of length 0..n
DistinctSeqs(S, n) ==
  {s \in UNION {[1..m -> S] : m \in 0..n} :
     \A a, b \in DOMAIN s : a # b => s[a] # s[b]}

\* ------------------------------------------------------------ agents
\* What Agent.optimize() resolves to.  Every agent wraps its phases in one
\* try/catch: it returns a 'complete' result or a 'failed' one (improvement
\* 0, executionTime -1) and never rejects.  Improvement and latency are
\* sampled: IndexAgent and QueryAgent clamp to 0..100 (0 is possible),
\* CacheAgent reports 30..70, SchemaAgent always 35 % at 48.75 ms.
ImprovementSamples == {0, 35}
LatencySamples == {49, 150}

CompleteResult(name, imp, t) ==
  [agent |-> name, status |-> "complete", improvement |-> imp, executionTime |-> t]

FailedResult(name) ==
  [agent |-> name, status |-> "failed", improvement |-> 0, executionTime |-> -1]

optimize(name) ==
  {FailedResult(name)} \cup
  CASE name = "SchemaAgent" -> {CompleteResult(name, 35, 49)}
    [] name = "CacheAgent" -> {CompleteResult(name, 35, t) : t \in LatencySamples}
    [] OTHER -> {CompleteResult(name, imp, t) : imp \in ImprovementSamples, t \in LatencySamples}

\* Agent.cleanup() is `await this.pool.end()`: it resolves or rejects.
cleanup == {"ok", "throw"}

\* ------------------------------------------------------ TigerService
NoFork == [id |-> 0, isDemoMode |-> FALSE]

\* createFork of src/unnamed/part_001: with the CLI enabled the provider
\* call succeeds (a real fork) or fails (caught: demo-mode handle); with the
\* CLI disabled it returns a demo-mode handle.  It never throws.
createFork(cli, id) ==
  IF cli
  THEN {[threw |-> FALSE, id |-> id, isDemoMode |-> FALSE],
        [threw |-> FALSE, id |-> id, isDemoMode |-> TRUE]}
  ELSE {[threw |-> FALSE, id |-> id, isDemoMode |-> TRUE]}

\* createFork of src/backend/src/services/tigerService.js (used by the
\* parallel route): with the CLI enabled the provider call succeeds or
\* fails, and a failure is rethrown ('Failed to create fork'); with the CLI
\* disabled it returns a demo-mode handle.
createForkOrThrow(cli, id) ==
  IF cli
  THEN {[threw |-> FALSE, id |-> id, isDemoMode |-> FALSE],
        [threw |-> TRUE, id |-> 0, isDemoMode |-> FALSE]}
  ELSE {[threw |-> FALSE, id |-> id, isDemoMode |-> TRUE]}

\* deleteFork: runs the provider's delete command only when the CLI is
\* enabled; the command may fail, and then deleteFork throws.
deleteFork(cli) == IF cli THEN {"ok", "throw"} ELSE {"ok"}

\* True when deleteFork(forkId) ran the provider's delete command
ProviderDeleteIssued(cli) == cli

\* ------------------------------------------------------------- winner
\* universes.reduce((best, current) =>
\*    current.improvement > best.improvement ? current : best)
\* without an initial value: the first element seeds `best`.
\* (variant: `>=` instead of `>`, the last of equal improvements wins)
RECURSIVE reduceFromLast(_, _, _)
reduceFromLast(us, best, k) ==
  IF k > Len(us) THEN best
  ELSE reduceFromLast(us, IF us[k].improvement >= best.improvement THEN us[k] ELSE best, k + 1)

RECURSIVE reduceFrom(_, _, _)
reduceFrom(us, best, k) ==
  IF k > Len(us) THEN best
  ELSE reduceFrom(us, IF us[k].improvement > best.improvement THEN us[k] ELSE best, k + 1)

reduce(us) == reduceFrom(us, us[1], 2)

\* --------------------------------------------------------------- state
VARIABLES
  active,              \* the optimize requests of this run
  cliAvailable,        \* process.env.TIGER_CLI_AVAILABLE === 'true'
  problemDescription,  \* [ReqIds -> request body field]
  selectedStrategies,  \* [ReqIds -> strategies.slice(0, 4)]
  pc,                  \* [ReqIds -> position of the handler]
  i,                   \* [ReqIds -> loop index (1-based)]
  fork,                \* [ReqIds -> `fork` of the current iteration]
  agent,               \* [ReqIds -> TRUE when `agent` of the iteration is constructed]
  result,              \* [ReqIds -> `result` of the current iteration]
  universes,           \* [ReqIds -> the `universes` array]
  winner,              \* [ReqIds -> the `winner` object]
  response,            \* [ReqIds -> what res.json() sent]
  forkSeq,             \* number of handles createFork has produced
  providerForks,       \* ids of the forks that exist at the provider
  createdForks,        \* [ReqIds -> handles createFork returned, in order]
  cleanupCalls,        \* [ReqIds -> [1..4 -> number of agent.cleanup() calls]]
  constructed,         \* [ReqIds -> indices whose agent was constructed]
  deleteCalls,         \* [ReqIds -> fork ids passed to deleteFork, in order]
  forks,               \* [ReqIds -> the `forks` array of the parallel route]
  runner,              \* [ReqIds -> [1..4 -> state of the k-th agentPromise]]
  returned,            \* [ReqIds -> [1..4 -> value the k-th agentPromise resolved to]]
  timer,               \* [ReqIds -> the deferred cleanup: 0 unset, k next fork, -1 finished]
  databaseUrl,         \* process.env.DATABASE_URL is set (getMainPool() returns a pool)
  prodDb,              \* objects that exist in the production database (committed)
  promBody,            \* [PromIds -> body of the promote request]
  promPc,              \* [PromIds -> position inside the promote handler / promoteFork]
  promK,               \* [PromIds -> index of the next statement of `changes`]
  tx,                  \* [PromIds -> transaction of the request's client: none, open, aborted]
  txWrites,            \* [PromIds -> objects created inside the open transaction]
  promError,           \* [PromIds -> message of the error caught so far]
  promResponse,        \* [PromIds -> what the promote handler answered]
  issued,              \* [PromIds -> statements sent to production, in order]
  checkedOut,          \* [PromIds -> TRUE while the request holds a pool client]
  releases,            \* [PromIds -> number of client.release() calls]
  agClass,             \* class of the agent under run ("none": no agent run observed)
  mainDatabase,        \* the agent's connectionString is process.env.DATABASE_URL
  phase,               \* number of methods of optimize() that have returned
  calls,               \* methods called on the agent so far, in order
  forkDb,              \* objects that exist in the fork's database
  raised,              \* some database call of the run raised an exception
  agStatus,            \* status of the result optimize() returned ("none" before)
  appliedChanges,      \* this.appliedChanges: statements the agent pushed after they succeeded
  details,             \* details.appliedChanges of the result optimize() returned
  pushed,              \* the entry the route pushed to `universes` for this strategy
  measured,            \* arguments of the calculation under observation
  computed             \* what the calculation returned

seqVars == <<active, cliAvailable, problemDescription, selectedStrategies, pc, i, fork,
             agent, result, universes, winner, response, forkSeq,
             providerForks, createdForks, cleanupCalls, constructed, deleteCalls>>

parVars == <<forks, runner, returned, timer>>

promVars == <<databaseUrl, prodDb, promBody, promPc, promK, tx, txWrites, promError,
              promResponse, issued, checkedOut, releases>>

agVars == <<agClass, mainDatabase, phase, calls, forkDb, raised, agStatus,
            appliedChanges, details, pushed>>

calcVars == <<measured, computed>>

optVars == <<seqVars, parVars>>

vars == <<seqVars, parVars, promVars, agVars, calcVars>>

NoResult == [agent |-> "none", status |-> "none", improvement |-> 0, executionTime |-> 0]
NoUniverse == [id |-> "none", agent |-> "none", forkId |-> 0, status |-> "none",
               improvement |-> 0, executionTime |-> 0]
NoResponse == [status |-> 0, success |-> FALSE, winner |-> "none"]

\* { id: universeName, symbol, ...result, forkId: fork.id }
Universe(name, res, forkId) ==
  [id |-> name, agent |-> res.agent, forkId |-> forkId, status |-> res.status,
   improvement |-> res.improvement, executionTime |-> res.executionTime]

\* ---------------------------------------------------- request bodies
RequestBodies ==
  [problemDescription : {"", "slow queries"},
   strategies : DistinctSeqs(StrategyIds, MaxStrategies)]

NoBody == [problemDescription |-> "", strategies |-> <<>>]

NoPromBody == [forkId |-> "", hasChanges |-> FALSE, changes |-> <<>>]
\* An answer without `result`: the 400 and 500 bodies carry error and message only
NoCount == -1

NoPromResponse == [status |-> 0, success |-> FALSE, appliedChanges |-> NoCount, message |-> ""]

\* What a calculation returns: an improvement (NaN flagged apart, so that
\* numbers stay numbers) or a cost summary in cents.
NoOutput ==
  [fn |-> "none", improvement |-> 0, nan |-> FALSE, synthetic |-> FALSE, marker |-> FALSE,
   baselineTime |-> 0, executionTime |-> 0,
   traditional |-> 0, agentic |-> 0, savingsMultiplier |-> 0, forkCount |-> 0]

NoInput ==
  [isProductionMode |-> FALSE, baseline |-> 0, optimized |-> 0, rows |-> 0,
   random1 |-> 0, random2 |-> 0, forkCount |-> 0]

\* No calculation observed on its own.
CalcIdle ==
  /\ measured = NoInput
  /\ computed = NoOutput

\* A result without `details` (the failed results, and QueryAgent's, which
\* carries details.optimizations instead)
Absent == [present |-> FALSE, appliedChanges |-> {}]

\* Nothing pushed to `universes` yet
NoEntry == [status |-> "none", details |-> Absent]

\* No agent run observed on its own.
AgentIdle ==
  /\ agClass = "none"
  /\ mainDatabase = FALSE
  /\ phase = 0
  /\ calls = <<>>
  /\ forkDb = {}
  /\ raised = FALSE
  /\ agStatus = "none"
  /\ appliedChanges = {}
  /\ details = Absent
  /\ pushed = NoEntry

\* No promote request received.
PromoteIdleOn(db) ==
  /\ databaseUrl = TRUE
  /\ prodDb = db
  /\ promBody = [p \in PromIds |-> NoPromBody]
  /\ promPc = [p \in PromIds |-> "done"]
  /\ promK = [p \in PromIds |-> 0]
  /\ tx = [p \in PromIds |-> "none"]
  /\ txWrites = [p \in PromIds |-> {}]
  /\ promError = [p \in PromIds |-> ""]
  /\ promResponse = [p \in PromIds |-> NoPromResponse]
  /\ issued = [p \in PromIds |-> <<>>]
  /\ checkedOut = [p \in PromIds |-> FALSE]
  /\ releases = [p \in PromIds |-> 0]

PromoteIdle == PromoteIdleOn({})

\* The server with the requests of A received and nothing run yet.
InitRequests(A) ==
  /\ active = A
  /\ cliAvailable \in BOOLEAN
  /\ \E body \in [ReqIds -> RequestBodies] :
       /\ \A r \in ReqIds \ A : body[r] = NoBody
       /\ problemDescription = [r \in ReqIds |-> body[r].problemDescription]
       /\ selectedStrategies = [r \in ReqIds |-> slice(body[r].strategies, 4)]
  /\ pc = [r \in ReqIds |-> "start"]
  /\ i = [r \in ReqIds |-> 0]
  /\ fork = [r \in ReqIds |-> NoFork]
  /\ agent = [r \in ReqIds |-> FALSE]
  /\ result = [r \in ReqIds |-> NoResult]
  /\ universes = [r \in ReqIds |-> <<>>]
  /\ winner = [r \in ReqIds |-> NoUniverse]
  /\ response = [r \in ReqIds |-> NoResponse]
  /\ forkSeq = 0
  /\ providerForks = {}
  /\ createdForks = [r \in ReqIds |-> <<>>]
  /\ cleanupCalls = [r \in ReqIds |-> [k \in 1..4 |-> 0]]
  /\ constructed = [r \in ReqIds |-> {}]
  /\ deleteCalls = [r \in ReqIds |-> <<>>]
  /\ forks = [r \in ReqIds |-> <<>>]
  /\ runner = [r \in ReqIds |-> [k \in 1..4 |-> "none"]]
  /\ returned = [r \in ReqIds |-> [k \in 1..4 |-> NoUniverse]]
  /\ timer = [r \in ReqIds |-> 0]

\* ------------------------------------------------- shared route tail
\* Steps 2-3 of both routes, synchronous after the last await: the winner
\* reduce (a TypeError on an empty array, caught by the outer catch: 500),
\* then res.json({success: true, universes, winner: winner.id, ...}).
Respond(r, us) ==
  IF Len(us) = 0
  THEN /\ response' = [response EXCEPT ![r] = [status |-> 500, success |-> FALSE, winner |-> "none"]]
       /\ winner' = winner
  ELSE /\ winner' = [winner EXCEPT ![r] = reduce(us)]
       /\ response' = [response EXCEPT ![r] =
                         [status |-> 200, success |-> TRUE, winner |-> reduce(us).id]]

\* ------------------------------------------------- sequential route
\* End of one iteration of the for loop with `universes` = us: the next
\* iteration starts with fork = null and agent = null, or the loop ends and
\* the handler answers.
SeqEndIteration(r, us) ==
  /\ universes' = [universes EXCEPT ![r] = us]
  /\ fork' = [fork EXCEPT ![r] = NoFork]
  /\ agent' = [agent EXCEPT ![r] = FALSE]
  /\ result' = [result EXCEPT ![r] = NoResult]
  /\ i' = [i EXCEPT ![r] = i[r] + 1]
  /\ IF i[r] < Len(selectedStrategies[r])
     THEN /\ pc' = [pc EXCEPT ![r] = "createFork"]
          /\ UNCHANGED <<winner, response>>
     ELSE /\ pc' = [pc EXCEPT ![r] = "done"]
          /\ Respond(r, us)

\* universes.push({id, symbol, agent: strategy, forkId: fork?.id || 'unknown',
\*                 status: 'failed', improvement: 0, executionTime: -1})
SeqFailedUniverse(r, f) ==
  [id |-> universeNames[i[r]], agent |-> selectedStrategies[r][i[r]], forkId |-> f.id,
   status |-> "failed", improvement |-> 0, executionTime |-> -1]

\* if (!problemDescription) return 400; otherwise enter the loop.
SeqStart(r) ==
  /\ r \in active
  /\ pc[r] = "start"
  /\ UNCHANGED <<promVars, agVars, calcVars>>
  /\ UNCHANGED parVars
  /\ UNCHANGED <<active, cliAvailable, problemDescription, selectedStrategies, forkSeq,
                 providerForks, createdForks, cleanupCalls, constructed, deleteCalls>>
  /\ IF problemDescription[r] = ""
     THEN /\ pc' = [pc EXCEPT ![r] = "done"]
          /\ response' = [response EXCEPT ![r] = [status |-> 400, success |-> FALSE, winner |-> "none"]]
          /\ UNCHANGED <<i, fork, agent, result, universes, winner>>
     ELSE SeqEndIteration(r, <<>>)

\* Step A and the synchronous part of step B: await createFork, look the
\* agent class up and construct the agent.  `new AgentClass` throws a
\* TypeError for a strategy that strategyMap does not know: the catch block
\* then has agent = null and fork set.
SeqForkReturned(r) ==
  \E f \in createFork(cliAvailable, forkSeq + 1) :
    /\ forkSeq' = forkSeq + 1
    /\ providerForks' = IF f.isDemoMode THEN providerForks ELSE providerForks \cup {f.id}
    /\ createdForks' = [createdForks EXCEPT ![r] = Append(@, [id |-> f.id, isDemoMode |-> f.isDemoMode])]
    /\ UNCHANGED <<active, cliAvailable, problemDescription, selectedStrategies,
                   cleanupCalls, deleteCalls>>
    /\ IF strategyMap(selectedStrategies[r][i[r]]) # "undefined"
       THEN /\ fork' = [fork EXCEPT ![r] = [id |-> f.id, isDemoMode |-> f.isDemoMode]]
            /\ agent' = [agent EXCEPT ![r] = TRUE]
            /\ constructed' = [constructed EXCEPT ![r] = @ \cup {i[r]}]
            /\ pc' = [pc EXCEPT ![r] = "optimize"]
            /\ UNCHANGED <<i, result, universes, winner, response>>
       ELSE /\ UNCHANGED constructed
            /\ IF ~f.isDemoMode
               THEN /\ fork' = [fork EXCEPT ![r] = [id |-> f.id, isDemoMode |-> f.isDemoMode]]
                    /\ pc' = [pc EXCEPT ![r] = "catchDeleteFork"]
                    /\ UNCHANGED <<i, agent, result, universes, winner, response>>
               ELSE SeqEndIteration(r, Append(universes[r], SeqFailedUniverse(r, f)))

\* `await execAsync(command)` is called without a timeout option: when the
\* provider command never exits, the promise never settles and the handler
\* stays suspended at this await.
SeqForkPending(r) ==
  /\ cliAvailable
  /\ pc' = [pc EXCEPT ![r] = "awaitProvider"]
  /\ UNCHANGED <<active, cliAvailable, problemDescription, selectedStrategies, i, fork, agent,
                 result, universes, winner, response, forkSeq, providerForks, createdForks,
                 cleanupCalls, constructed, deleteCalls>>

SeqCreateFork(r) ==
  /\ pc[r] = "createFork"
  /\ UNCHANGED <<promVars, agVars, calcVars>>
  /\ UNCHANGED parVars
  /\ \/ SeqForkReturned(r)
     \/ SeqForkPending(r)

\* const result = await agent.optimize(problemDescription)
SeqOptimize(r) ==
  /\ pc[r] = "optimize"
  /\ UNCHANGED <<promVars, agVars, calcVars>>
  /\ UNCHANGED parVars
  /\ \E res \in optimize(strategyMap(selectedStrategies[r][i[r]])) :
       result' = [result EXCEPT ![r] = res]
  /\ pc' = [pc EXCEPT ![r] = "cleanup"]
  /\ UNCHANGED <<active, cliAvailable, problemDescription, selectedStrategies, i, fork, agent,
                 universes, winner, response, forkSeq, providerForks, createdForks,
                 cleanupCalls, constructed, deleteCalls>>

\* await agent.cleanup(); universes.push({...result}); then step C when the
\* fork is not a demo-mode handle.  A rejected cleanup enters the catch block.
SeqCleanup(r) ==
  /\ pc[r] = "cleanup"
  /\ UNCHANGED <<promVars, agVars, calcVars>>
  /\ UNCHANGED parVars
  /\ cleanupCalls' = [cleanupCalls EXCEPT ![r][i[r]] = @ + 1]
  /\ UNCHANGED <<active, cliAvailable, problemDescription, selectedStrategies, forkSeq,
                 providerForks, createdForks, constructed, deleteCalls>>
  /\ \E outcome \in cleanup :
       IF outcome = "throw"
       THEN /\ pc' = [pc EXCEPT ![r] = "catchCleanup"]
            /\ UNCHANGED <<i, fork, agent, result, universes, winner, response>>
       ELSE LET us == Append(universes[r], Universe(universeNames[i[r]], result[r], fork[r].id))
            IN IF ~fork[r].isDemoMode
               THEN /\ universes' = [universes EXCEPT ![r] = us]
                    /\ pc' = [pc EXCEPT ![r] = "deleteFork"]
                    /\ UNCHANGED <<i, fork, agent, result, winner, response>>
               ELSE SeqEndIteration(r, us)

\* Step C: await tigerService.deleteFork(fork.id) inside the try block; when
\* it throws, the catch block runs (agent is set).
SeqDeleteFork(r) ==
  /\ pc[r] = "deleteFork"
  /\ UNCHANGED <<promVars, agVars, calcVars>>
  /\ UNCHANGED parVars
  /\ deleteCalls' = [deleteCalls EXCEPT ![r] = Append(@, fork[r].id)]
  /\ UNCHANGED <<active, cliAvailable, problemDescription, selectedStrategies, forkSeq,
                 createdForks, cleanupCalls, constructed>>
  /\ \E outcome \in deleteFork(cliAvailable) :
       IF outcome = "throw"
       THEN /\ pc' = [pc EXCEPT ![r] = "catchCleanup"]
            /\ UNCHANGED <<i, fork, agent, result, universes, winner, response, providerForks>>
       ELSE /\ providerForks' = providerForks \ {fork[r].id}
            /\ SeqEndIteration(r, universes[r])

\* catch: if (agent) { try { await agent.cleanup() } catch {} }, then the
\* fork cleanup when the fork is set and not demo mode, else the failed push.
SeqCatchCleanup(r) ==
  /\ pc[r] = "catchCleanup"
  /\ UNCHANGED <<promVars, agVars, calcVars>>
  /\ UNCHANGED parVars
  /\ agent[r]
  /\ cleanupCalls' = [cleanupCalls EXCEPT ![r][i[r]] = @ + 1]
  /\ UNCHANGED <<active, cliAvailable, problemDescription, selectedStrategies, forkSeq,
                 providerForks, createdForks, constructed, deleteCalls>>
  /\ \E outcome \in cleanup :
       IF fork[r] # NoFork /\ ~fork[r].isDemoMode
       THEN /\ pc' = [pc EXCEPT ![r] = "catchDeleteFork"]
            /\ UNCHANGED <<i, fork, agent, result, universes, winner, response>>
       ELSE SeqEndIteration(r, Append(universes[r], SeqFailedUniverse(r, fork[r])))

\* catch: try { await tigerService.deleteFork(fork.id) } catch {}, then the
\* failed result is pushed.
SeqCatchDeleteFork(r) ==
  /\ pc[r] = "catchDeleteFork"
  /\ UNCHANGED <<promVars, agVars, calcVars>>
  /\ UNCHANGED parVars
  /\ fork[r] # NoFork /\ ~fork[r].isDemoMode
  /\ deleteCalls' = [deleteCalls EXCEPT ![r] = Append(@, fork[r].id)]
  /\ UNCHANGED <<active, cliAvailable, problemDescription, selectedStrategies, forkSeq,
                 createdForks, cleanupCalls, constructed>>
  /\ \E outcome \in deleteFork(cliAvailable) :
       /\ providerForks' = IF outcome = "ok" THEN providerForks \ {fork[r].id} ELSE providerForks
       /\ SeqEndIteration(r, Append(universes[r], SeqFailedUniverse(r, fork[r])))

SeqStep(r) ==
  \/ SeqStart(r)
  \/ SeqCreateFork(r)
  \/ SeqOptimize(r)
  \/ SeqCleanup(r)
  \/ SeqDeleteFork(r)
  \/ SeqCatchCleanup(r)
  \/ SeqCatchDeleteFork(r)

InitSeq == InitRequests({1}) /\ PromoteIdle /\ AgentIdle /\ CalcIdle

NextSeq == \E r \in ReqIds : SeqStep(r)

Spec == InitSeq /\ [][NextSeq]_vars

\* --------------------------------------------------- parallel route
\* if (!problemDescription) return 400; otherwise the fork loop starts.
\* With no strategy selected no fork is created and no agent runs.
ParStart(r) ==
  /\ r \in active
  /\ pc[r] = "start"
  /\ UNCHANGED <<promVars, agVars, calcVars>>
  /\ UNCHANGED <<active, cliAvailable, problemDescription, selectedStrategies, fork, agent,
                 result, universes, winner, forkSeq, providerForks, createdForks,
                 cleanupCalls, constructed, deleteCalls, forks, runner, returned, timer>>
  /\ IF problemDescription[r] = ""
     THEN /\ pc' = [pc EXCEPT ![r] = "done"]
          /\ response' = [response EXCEPT ![r] = [status |-> 400, success |-> FALSE, winner |-> "none"]]
          /\ i' = i
     ELSE /\ i' = [i EXCEPT ![r] = 1]
          /\ pc' = [pc EXCEPT ![r] = IF Len(selectedStrategies[r]) = 0 THEN "all" ELSE "createFork"]
          /\ response' = response

\* forks.map(async ({fork, strategy, ...}) => { ... }) runs every callback
\* up to its first await: the class lookup, `new AgentClass` (a TypeError
\* for an unknown strategy rejects that promise) and the call of
\* agent.optimize.
ParLaunch(fs) ==
  [k \in 1..4 |->
     IF k > Len(fs) THEN "none"
     ELSE IF strategyMap(fs[k].strategy) = "undefined" THEN "rejected" ELSE "optimize"]

\* One iteration of the fork loop: await createFork inside try/catch; a
\* handle that came back is pushed to `forks`, a throw is logged and the
\* strategy is skipped.  After the last iteration the agents are launched
\* and the handler awaits Promise.all, which rejects as soon as one promise
\* is rejected (outer catch: 500).
ParCreateFork(r) ==
  /\ pc[r] = "createFork"
  /\ UNCHANGED <<promVars, agVars, calcVars>>
  /\ UNCHANGED <<active, cliAvailable, problemDescription, selectedStrategies, fork, agent,
                 result, universes, winner, cleanupCalls, deleteCalls, returned, timer>>
  /\ \E f \in createForkOrThrow(cliAvailable, forkSeq + 1) :
       LET entry == [fork |-> [id |-> f.id, isDemoMode |-> f.isDemoMode],
                     strategy |-> selectedStrategies[r][i[r]],
                     universeName |-> universeNames[i[r]]]
           fs == IF f.threw THEN forks[r] ELSE Append(forks[r], entry)
           last == i[r] = Len(selectedStrategies[r])
       IN /\ forkSeq' = IF f.threw THEN forkSeq ELSE forkSeq + 1
          /\ providerForks' = IF f.threw \/ f.isDemoMode THEN providerForks
                              ELSE providerForks \cup {f.id}
          /\ createdForks' = IF f.threw THEN createdForks
                             ELSE [createdForks EXCEPT ![r] = Append(@, entry.fork)]
          /\ forks' = [forks EXCEPT ![r] = fs]
          /\ i' = [i EXCEPT ![r] = i[r] + 1]
          /\ IF ~last
             THEN UNCHANGED <<pc, runner, constructed, response>>
             ELSE /\ runner' = [runner EXCEPT ![r] = ParLaunch(fs)]
                  /\ constructed' = [constructed EXCEPT ![r] =
                                       {k \in 1..Len(fs) : ParLaunch(fs)[k] = "optimize"}]
                  /\ IF \E k \in 1..Len(fs) : ParLaunch(fs)[k] = "rejected"
                     THEN /\ pc' = [pc EXCEPT ![r] = "done"]
                          /\ response' = [response EXCEPT ![r] =
                                            [status |-> 500, success |-> FALSE, winner |-> "none"]]
                     ELSE /\ pc' = [pc EXCEPT ![r] = "all"]
                          /\ response' = response

\* const result = await agent.optimize(problemDescription) of the k-th promise
ParOptimize(r, k) ==
  /\ runner[r][k] = "optimize"
  /\ UNCHANGED <<promVars, agVars, calcVars>>
  /\ \E res \in optimize(strategyMap(forks[r][k].strategy)) :
       returned' = [returned EXCEPT ![r][k] =
                      Universe(forks[r][k].universeName, res, forks[r][k].fork.id)]
  /\ runner' = [runner EXCEPT ![r][k] = "cleanup"]
  /\ UNCHANGED <<seqVars, forks, timer>>

\* { id, symbol, agent: AgentClass.name, forkId: fork.id, status: 'failed', ... }
ParFailedUniverse(entry) ==
  [id |-> entry.universeName, agent |-> strategyMap(entry.strategy), forkId |-> entry.fork.id,
   status |-> "failed", improvement |-> 0, executionTime |-> -1]

\* await agent.cleanup() in the try block: the promise resolves to the
\* result, or the catch block is entered.
ParCleanup(r, k) ==
  /\ runner[r][k] = "cleanup"
  /\ UNCHANGED <<promVars, agVars, calcVars>>
  /\ cleanupCalls' = [cleanupCalls EXCEPT ![r][k] = @ + 1]
  /\ \E outcome \in cleanup :
       runner' = [runner EXCEPT ![r][k] = IF outcome = "ok" THEN "returned" ELSE "catchCleanup"]
  /\ UNCHANGED <<active, cliAvailable, problemDescription, selectedStrategies, pc, i, fork,
                 agent, result, universes, winner, response, forkSeq, providerForks,
                 createdForks, constructed, deleteCalls, forks, returned, timer>>

\* catch: await agent.cleanup() (unguarded), then the failed result is
\* returned.  When this cleanup rejects, the promise is rejected, Promise.all
\* rejects and the outer catch answers 500 unless the response is out already.
ParCatchCleanup(r, k) ==
  /\ runner[r][k] = "catchCleanup"
  /\ UNCHANGED <<promVars, agVars, calcVars>>
  /\ cleanupCalls' = [cleanupCalls EXCEPT ![r][k] = @ + 1]
  /\ UNCHANGED <<active, cliAvailable, problemDescription, selectedStrategies, i, fork,
                 agent, result, universes, winner, forkSeq, providerForks,
                 createdForks, constructed, deleteCalls, forks, timer>>
  /\ \E outcome \in cleanup :
       IF outcome = "ok"
       THEN /\ runner' = [runner EXCEPT ![r][k] = "returned"]
            /\ returned' = [returned EXCEPT ![r][k] = ParFailedUniverse(forks[r][k])]
            /\ UNCHANGED <<pc, response>>
       ELSE /\ runner' = [runner EXCEPT ![r][k] = "rejected"]
            /\ returned' = returned
            /\ IF pc[r] = "all"
               THEN /\ pc' = [pc EXCEPT ![r] = "done"]
                    /\ response' = [response EXCEPT ![r] =
                                      [status |-> 500, success |-> FALSE, winner |-> "none"]]
               ELSE UNCHANGED <<pc, response>>

\* const universes = await Promise.all(agentPromises) resolved: steps 3-5.
\* The winner reduce, then setTimeout(cleanup, 60000), then res.json.
ParAll(r) ==
  /\ pc[r] = "all"
  /\ UNCHANGED <<promVars, agVars, calcVars>>
  /\ \A k \in 1..Len(forks[r]) : runner[r][k] = "returned"
  /\ LET us == [k \in 1..Len(forks[r]) |-> returned[r][k]]
     IN /\ universes' = [universes EXCEPT ![r] = us]
        /\ Respond(r, us)
        /\ timer' = [timer EXCEPT ![r] = IF Len(us) = 0 THEN 0 ELSE 1]
  /\ pc' = [pc EXCEPT ![r] = "done"]
  /\ UNCHANGED <<active, cliAvailable, problemDescription, selectedStrategies, i, fork, agent,
                 result, forkSeq, providerForks, createdForks, cleanupCalls, constructed,
                 deleteCalls, forks, runner, returned>>

\* The deferred cleanup with the try/catch around the loop instead of inside
\* it: the first deleteFork that throws ends the loop.
ParDeferredCleanupStopOnThrow(r) ==
  /\ timer[r] \in 1..Len(forks[r])
  /\ UNCHANGED <<promVars, agVars, calcVars>>
  /\ deleteCalls' = [deleteCalls EXCEPT ![r] = Append(@, forks[r][timer[r]].fork.id)]
  /\ \E outcome \in deleteFork(cliAvailable) :
       /\ providerForks' = IF outcome = "ok" /\ ProviderDeleteIssued(cliAvailable)
                           THEN providerForks \ {forks[r][timer[r]].fork.id}
                           ELSE providerForks
       /\ timer' = [timer EXCEPT ![r] = IF timer[r] = Len(forks[r]) \/ outcome = "throw"
                                        THEN -1 ELSE timer[r] + 1]
  /\ UNCHANGED <<active, cliAvailable, problemDescription, selectedStrategies, pc, i, fork,
                 agent, result, universes, winner, response, forkSeq, createdForks,
                 cleanupCalls, constructed, forks, runner, returned>>

\* The deferred cleanup, one fork per step:
\*   for (const {fork} of forks) { try { await deleteFork(fork.id) } catch {} }
ParDeferredCleanup(r) ==
  /\ timer[r] \in 1..Len(forks[r])
  /\ UNCHANGED <<promVars, agVars, calcVars>>
  /\ deleteCalls' = [deleteCalls EXCEPT ![r] = Append(@, forks[r][timer[r]].fork.id)]
  /\ \E outcome \in deleteFork(cliAvailable) :
       providerForks' = IF outcome = "ok" /\ ProviderDeleteIssued(cliAvailable)
                        THEN providerForks \ {forks[r][timer[r]].fork.id}
                        ELSE providerForks
  /\ timer' = [timer EXCEPT ![r] = IF timer[r] = Len(forks[r]) THEN -1 ELSE timer[r] + 1]
  /\ UNCHANGED <<active, cliAvailable, problemDescription, selectedStrategies, pc, i, fork,
                 agent, result, universes, winner, response, forkSeq, createdForks,
                 cleanupCalls, constructed, forks, runner, returned>>

ParStep(r) ==
  \/ ParStart(r)
  \/ ParCreateFork(r)
  \/ \E k \in 1..4 : ParOptimize(r, k)
  \/ \E k \in 1..4 : ParCleanup(r, k)
  \/ \E k \in 1..4 : ParCatchCleanup(r, k)
  \/ ParAll(r)
  \/ ParDeferredCleanup(r)

NextPar == \E r \in ReqIds : ParStep(r)

SpecPar == InitSeq /\ [][NextPar]_vars

\* -------------------------------------------------------- promotion
\* SQL statements a change list can carry: guarded creations, which succeed
\* and are no-ops on an existing object, and a statement the database
\* rejects (e.g. it references a nonexistent object).
Statements == {"CREATE INDEX IF NOT EXISTS a", "CREATE INDEX IF NOT EXISTS b", "INVALID SQL"}

\* The object a statement creates
Creates(stmt) ==
  CASE stmt = "CREATE INDEX IF NOT EXISTS a" -> {"a"}
    [] stmt = "CREATE INDEX IF NOT EXISTS b" -> {"b"}
    [] OTHER -> {}

\* (variant: creations without IF NOT EXISTS, which the database rejects
\* when the object is already there)
FailsIfExists(stmt, txState) ==
  \/ stmt = "INVALID SQL"
  \/ txState = "aborted"
  \/ Creates(stmt) # {} /\ Creates(stmt) \subseteq prodDb

\* A statement fails when the database rejects it, and any statement fails
\* inside a transaction that is already aborted.
Fails(stmt, txState) == stmt = "INVALID SQL" \/ txState = "aborted"

\* BEGIN, COMMIT and ROLLBACK succeed, or fail when the connection breaks.
control == {"ok", "error"}

PromBodies ==
  [forkId : {"", "svc1"}, hasChanges : {TRUE},
   changes : UNION {[1..n -> Statements] : n \in 0..MaxChanges}]
  \cup [forkId : {"svc1"}, hasChanges : {FALSE}, changes : {<<>>}]

\* No optimize request received.
OptimizeIdle ==
  /\ InitRequests({})
  /\ cliAvailable = FALSE

InitPromote ==
  /\ OptimizeIdle
  /\ AgentIdle
  /\ CalcIdle
  /\ databaseUrl \in BOOLEAN
  /\ prodDb \in SUBSET {"a"}
  /\ promBody \in [PromIds -> PromBodies]
  /\ promPc = [p \in PromIds |-> "start"]
  /\ promK = [p \in PromIds |-> 0]
  /\ tx = [p \in PromIds |-> "none"]
  /\ txWrites = [p \in PromIds |-> {}]
  /\ promError = [p \in PromIds |-> ""]
  /\ promResponse = [p \in PromIds |-> NoPromResponse]
  /\ issued = [p \in PromIds |-> <<>>]
  /\ checkedOut = [p \in PromIds |-> FALSE]
  /\ releases = [p \in PromIds |-> 0]

\* promoteFork's outer catch rethrows 'Failed to promote fork: ' + message,
\* and the route answers 500 with that message.
PromFail(p, msg) ==
  /\ promResponse' = [promResponse EXCEPT ![p] =
                        [status |-> 500, success |-> FALSE, appliedChanges |-> NoCount,
                         message |-> msg]]
  /\ promPc' = [promPc EXCEPT ![p] = "done"]

\* (variant: promoteFork looks the fork up and refuses an id that names no
\* fork of the provider)
PromStartKnownFork(p) ==
  /\ promPc[p] = "start"
  /\ UNCHANGED <<optVars, agVars, calcVars, databaseUrl, prodDb, promBody, promK, tx, txWrites, promError,
                 issued, checkedOut, releases>>
  /\ IF promBody[p].forkId = "" \/ ~promBody[p].hasChanges
     THEN /\ promResponse' = [promResponse EXCEPT ![p] =
                                [status |-> 400, success |-> FALSE, appliedChanges |-> NoCount,
                                 message |-> "Fork ID and changes are required"]]
          /\ promPc' = [promPc EXCEPT ![p] = "done"]
     ELSE IF ~databaseUrl
          THEN PromFail(p, "Main database pool not initialized")
          ELSE IF promBody[p].forkId = "never-created"
               THEN PromFail(p, "Fork not found")
               ELSE /\ promPc' = [promPc EXCEPT ![p] = "connect"]
                    /\ promResponse' = promResponse

\* router.post('/promote'): 400 unless forkId and changes are given; then
\* promoteFork: the pool must exist, and a client is requested.
PromStart(p) ==
  /\ promPc[p] = "start"
  /\ UNCHANGED <<optVars, agVars, calcVars, databaseUrl, prodDb, promBody, promK, tx, txWrites, promError,
                 issued, checkedOut, releases>>
  /\ IF promBody[p].forkId = "" \/ ~promBody[p].hasChanges
     THEN /\ promResponse' = [promResponse EXCEPT ![p] =
                                [status |-> 400, success |-> FALSE, appliedChanges |-> NoCount,
                                 message |-> "Fork ID and changes are required"]]
          /\ promPc' = [promPc EXCEPT ![p] = "done"]
     ELSE IF ~databaseUrl
          THEN PromFail(p, "Main database pool not initialized")
          ELSE /\ promPc' = [promPc EXCEPT ![p] = "connect"]
               /\ promResponse' = promResponse

\* const client = await mainPool.connect(): every caller gets its own client
\* (the pool is built without `max`, so up to 10 clients are handed out).
PromConnect(p) ==
  /\ promPc[p] = "connect"
  /\ UNCHANGED <<optVars, agVars, calcVars, databaseUrl, prodDb, promBody, promK, tx, txWrites, promError,
                 issued, releases>>
  /\ \E outcome \in control :
       IF outcome = "ok"
       THEN /\ checkedOut' = [checkedOut EXCEPT ![p] = TRUE]
            /\ promPc' = [promPc EXCEPT ![p] = "begin"]
            /\ promResponse' = promResponse
       ELSE /\ checkedOut' = checkedOut
            /\ PromFail(p, "connect failed")

\* (variant: the loop stops one statement early)
PromAfterSkipLast(p, k) ==
  IF k < Len(promBody[p].changes) THEN "change" ELSE "commit"

\* After a successful step: the next statement, or COMMIT after the last.
PromAfter(p, k) ==
  IF k <= Len(promBody[p].changes) THEN "change" ELSE "commit"

\* await client.query('BEGIN')
PromBegin(p) ==
  /\ promPc[p] = "begin"
  /\ issued' = [issued EXCEPT ![p] = Append(@, "BEGIN")]
  /\ UNCHANGED <<optVars, agVars, calcVars, databaseUrl, prodDb, promBody, txWrites, promResponse,
                 checkedOut, releases>>
  /\ \E outcome \in control :
       IF outcome = "ok"
       THEN /\ tx' = [tx EXCEPT ![p] = "open"]
            /\ promK' = [promK EXCEPT ![p] = 1]
            /\ promPc' = [promPc EXCEPT ![p] = PromAfter(p, 1)]
            /\ promError' = promError
       ELSE /\ promError' = [promError EXCEPT ![p] = "BEGIN failed"]
            /\ promPc' = [promPc EXCEPT ![p] = "rollback"]
            /\ UNCHANGED <<tx, promK>>

\* (variant: a failing statement is logged and skipped, the loop goes on)
PromChangeSkipFailed(p) ==
  /\ promPc[p] = "change"
  /\ LET stmt == promBody[p].changes[promK[p]]
     IN /\ issued' = [issued EXCEPT ![p] = Append(@, stmt)]
        /\ tx' = [tx EXCEPT ![p] = IF Fails(stmt, tx[p]) THEN "aborted" ELSE @]
        /\ txWrites' = [txWrites EXCEPT ![p] = IF Fails(stmt, tx[p]) THEN @ ELSE @ \cup Creates(stmt)]
        /\ promK' = [promK EXCEPT ![p] = @ + 1]
        /\ promPc' = [promPc EXCEPT ![p] = PromAfter(p, promK[p] + 1)]
        /\ promError' = promError
  /\ UNCHANGED <<optVars, agVars, calcVars, databaseUrl, prodDb, promBody, promResponse, checkedOut, releases>>

\* await client.query(change) for the next element of `changes`
PromChange(p) ==
  /\ promPc[p] = "change"
  /\ LET stmt == promBody[p].changes[promK[p]]
     IN /\ issued' = [issued EXCEPT ![p] = Append(@, stmt)]
        /\ IF Fails(stmt, tx[p])
           THEN /\ tx' = [tx EXCEPT ![p] = "aborted"]
                /\ promError' = [promError EXCEPT ![p] = stmt]
                /\ promPc' = [promPc EXCEPT ![p] = "rollback"]
                /\ UNCHANGED <<txWrites, promK>>
           ELSE /\ txWrites' = [txWrites EXCEPT ![p] = @ \cup Creates(stmt)]
                /\ promK' = [promK EXCEPT ![p] = @ + 1]
                /\ promPc' = [promPc EXCEPT ![p] = PromAfter(p, promK[p] + 1)]
                /\ UNCHANGED <<tx, promError>>
  /\ UNCHANGED <<optVars, agVars, calcVars, databaseUrl, prodDb, promBody, promResponse, checkedOut, releases>>

\* client.release() of the finally block
PromRelease(p) ==
  /\ checkedOut' = [checkedOut EXCEPT ![p] = FALSE]
  /\ releases' = [releases EXCEPT ![p] = @ + 1]

\* await client.query('COMMIT'); return {success: true, appliedChanges:
\* changes.length}.  A COMMIT that fails enters the catch block.  (The
\* database turns the COMMIT of an aborted transaction into a rollback.)
PromCommit(p) ==
  /\ promPc[p] = "commit"
  /\ issued' = [issued EXCEPT ![p] = Append(@, "COMMIT")]
  /\ UNCHANGED <<optVars, agVars, calcVars, databaseUrl, promBody, promK>>
  /\ \E outcome \in control :
       IF outcome = "ok"
       THEN /\ prodDb' = IF tx[p] = "open" THEN prodDb \cup txWrites[p] ELSE prodDb
            /\ tx' = [tx EXCEPT ![p] = "none"]
            /\ txWrites' = [txWrites EXCEPT ![p] = {}]
            /\ PromRelease(p)
            /\ promResponse' = [promResponse EXCEPT ![p] =
                                  [status |-> 200, success |-> TRUE,
                                   appliedChanges |-> Len(promBody[p].changes),
                                   message |-> "Changes promoted to production successfully"]]
            /\ promPc' = [promPc EXCEPT ![p] = "done"]
            /\ promError' = promError
       ELSE /\ promError' = [promError EXCEPT ![p] = "COMMIT failed"]
            /\ promPc' = [promPc EXCEPT ![p] = "rollback"]
            /\ UNCHANGED <<prodDb, tx, txWrites, promResponse, checkedOut, releases>>

\* (variant: release() after the ROLLBACK inside the catch block instead of
\* in a finally block: a ROLLBACK that fails skips it)
PromRollbackNoFinally(p) ==
  /\ promPc[p] = "rollback"
  /\ issued' = [issued EXCEPT ![p] = Append(@, "ROLLBACK")]
  /\ tx' = [tx EXCEPT ![p] = "none"]
  /\ txWrites' = [txWrites EXCEPT ![p] = {}]
  /\ UNCHANGED <<optVars, agVars, calcVars, databaseUrl, prodDb, promBody, promK>>
  /\ \E outcome \in control :
       LET msg == IF outcome = "ok" THEN promError[p] ELSE "ROLLBACK failed"
       IN /\ promError' = [promError EXCEPT ![p] = msg]
          /\ IF outcome = "ok" THEN PromRelease(p) ELSE UNCHANGED <<checkedOut, releases>>
          /\ PromFail(p, msg)

\* catch: await client.query('ROLLBACK'); throw error; finally release.
\* When the ROLLBACK itself fails, its error replaces the caught one; the
\* server drops the transaction of a broken connection.
PromRollback(p) ==
  /\ promPc[p] = "rollback"
  /\ issued' = [issued EXCEPT ![p] = Append(@, "ROLLBACK")]
  /\ tx' = [tx EXCEPT ![p] = "none"]
  /\ txWrites' = [txWrites EXCEPT ![p] = {}]
  /\ PromRelease(p)
  /\ UNCHANGED <<optVars, agVars, calcVars, databaseUrl, prodDb, promBody, promK>>
  /\ \E outcome \in control :
       LET msg == IF outcome = "ok" THEN promError[p] ELSE "ROLLBACK failed"
       IN /\ promError' = [promError EXCEPT ![p] = msg]
          /\ PromFail(p, msg)

PromStep(p) ==
  \/ PromStart(p)
  \/ PromConnect(p)
  \/ PromBegin(p)
  \/ PromChange(p)
  \/ PromCommit(p)
  \/ PromRollback(p)

NextPromote == \E p \in PromIds : PromStep(p)

SpecPromote == InitPromote /\ [][NextPromote]_vars

\* ------------------------------------------ promotion requests over time
\* fork.id as the response carries it (forkId: fork.id) and as the client
\* sends it back in the promote body
ForkIdText(id) == <<"svc1", "svc2", "svc3", "svc4">>[id]

\* A promote request arrives while no other one is being handled:
\* const { forkId, changes } = req.body
PromReceive(p, body) ==
  /\ \A q \in PromIds : promPc[q] = "done"
  /\ promBody[p] = NoPromBody
  /\ promBody' = [promBody EXCEPT ![p] = body]
  /\ promPc' = [promPc EXCEPT ![p] = "start"]
  /\ UNCHANGED <<optVars, agVars, calcVars, databaseUrl, prodDb, promK, tx, txWrites,
                 promError, promResponse, issued, checkedOut, releases>>

\* UniverseCard renders the Promote button inside the block of a complete
\* universe, and only for the winner (isWinner = universe.id === winner).
PromoteOffered(universe, winnerId) ==
  universe.status = "complete" /\ universe.id = winnerId

\* A client posts /api/optimize/promote with the forkId of a universe of an
\* answered run and a list of statements; one promotion is observed.
PromForRun(p) ==
  /\ \A q \in PromIds : promBody[q] = NoPromBody
  /\ \E r \in active :
       /\ pc[r] = "done"
       /\ response[r].status = 200
       /\ \E k \in 1..Len(universes[r]), n \in 0..MaxChanges :
            \E changes \in [1..n -> Statements] :
              PromReceive(p, [forkId |-> ForkIdText(universes[r][k].forkId),
                              hasChanges |-> TRUE, changes |-> changes])

\* handlePromotion: the client posts the forkId and the change list of a
\* universe and waits for the answer; the next request (a second click, a
\* retry) follows the answer.
PromSend(p) ==
  \E body \in PromBodies : PromReceive(p, body)

\* The server with production as it is and no promote request received yet.
InitPromoteIdle ==
  /\ OptimizeIdle
  /\ AgentIdle
  /\ CalcIdle
  /\ \E db \in SUBSET {"a"} : PromoteIdleOn(db)

NextPromoteInARow ==
  \/ \E p \in PromIds : PromSend(p)
  \/ NextPromote

SpecPromoteInARow == InitPromoteIdle /\ [][NextPromoteInARow]_vars

NextRunPromote ==
  \/ NextSeq
  \/ \E p \in PromIds : PromForRun(p)
  \/ NextPromote

SpecRunPromote == InitSeq /\ [][NextRunPromote]_vars

\* ================================================================ claims
RECURSIVE Count(_, _)
Count(s, x) ==
  IF Len(s) = 0 THEN 0
  ELSE (IF s[1] = x THEN 1 ELSE 0) + Count(Tail(s), x)

Answered(r) == pc[r] = "done" /\ response[r].status = 200

AllKnown(r) == \A k \in 1..Len(selectedStrategies[r]) : selectedStrategies[r][k] \in KnownStrategies

\* C1 (sequential route): the returned `universes` list has exactly one
\* entry per selected strategy, in selection order, with pairwise distinct
\* ids, whatever createFork, optimize, cleanup and deleteFork did.
C1_OneEntryPerStrategy ==
  \A r \in active :
    (Answered(r) /\ AllKnown(r)) =>
      /\ Len(universes[r]) = Len(selectedStrategies[r])
      /\ \A k \in 1..Len(universes[r]) : universes[r][k].id = universeNames[k]
      /\ \A a, b \in 1..Len(universes[r]) : a # b => universes[r][a].id # universes[r][b].id

\* The result of the current strategy is already in `universes`
Recorded(r) ==
  /\ i[r] \in 1..4
  /\ Len(universes[r]) > 0
  /\ universes[r][Len(universes[r])].id = universeNames[i[r]]

\* C2 (sequential route): once the agent's result is recorded and the
\* deleteFork that follows has thrown, the handler leaves `universes` as it
\* is (the recorded result is unchanged and no Failed result is added for
\* that strategy) and goes on with the next strategy.
C2_DeleteFailureNotEscalated ==
  [][\A r \in active :
       (pc[r] \in {"catchCleanup", "catchDeleteFork"} /\ Recorded(r)) =>
         /\ universes'[r] = universes[r]
         /\ pc'[r] \in {"catchCleanup", "catchDeleteFork", "createFork", "done"}]_vars

Complete(u) == u.status = "complete"

\* C3 (both routes): in a successful response `winner` is null or the id of
\* a Complete result whose improvement is at least that of every other
\* Complete result; it is never the id of a Failed result.
C3_WinnerIsBestComplete ==
  \A r \in active :
    Answered(r) =>
      \/ response[r].winner = "none"
      \/ \E k \in 1..Len(universes[r]) :
           /\ universes[r][k].id = response[r].winner
           /\ Complete(universes[r][k])
           /\ \A j \in 1..Len(universes[r]) :
                Complete(universes[r][j]) =>
                  universes[r][k].improvement >= universes[r][j].improvement

\* C4 (both routes): when every result is Failed the response still has
\* success = true and winner = null; winner is non-null only if some result
\* is Complete.
C4_NoWinnerWhenAllFailed ==
  \A r \in active :
    (pc[r] = "done" /\ response[r].status # 400 /\ Len(universes[r]) > 0
       /\ \A k \in 1..Len(universes[r]) : ~Complete(universes[r][k])) =>
      /\ response[r].success
      /\ response[r].winner = "none"

\* Positions of the Complete results that carry the greatest improvement
\* among the Complete results
BestComplete(us) ==
  {k \in 1..Len(us) :
     /\ Complete(us[k])
     /\ \A j \in 1..Len(us) : Complete(us[j]) => us[k].improvement >= us[j].improvement}

\* Position the stated tie-break selects: lowest executionTime, then first listed
TieBreak(us, T) ==
  CHOOSE k \in T :
    \A j \in T : \/ us[k].executionTime < us[j].executionTime
                 \/ (us[k].executionTime = us[j].executionTime /\ k <= j)

Best(us) ==
  {k \in 1..Len(us) : \A j \in 1..Len(us) : us[k].improvement >= us[j].improvement}

\* First position with the greatest improvement
FirstBest(us) == CHOOSE k \in Best(us) : \A j \in Best(us) : k <= j

StatementFailed(p) == \E k \in 1..Len(issued[p]) : issued[p][k] = "INVALID SQL"

Issued(p, stmt) == \E k \in 1..Len(issued[p]) : issued[p][k] = stmt

\* Objects the statements of a change list create
Created(changes) == UNION {Creates(changes[k]) : k \in 1..Len(changes)}

\* C6: a promotion with a failing statement, at any position of `changes`,
\* never issues COMMIT, issues ROLLBACK and raises (500); production state
\* changes only in the step that commits a promotion all of whose statements
\* succeeded, and then by exactly the objects of its change list.
C6_PromotionAtomic ==
  /\ [](\A p \in PromIds :
          StatementFailed(p) =>
            /\ ~Issued(p, "COMMIT")
            /\ promPc[p] = "done" => (Issued(p, "ROLLBACK") /\ promResponse[p].status = 500))
  /\ [][prodDb' # prodDb =>
          \E p \in PromIds :
            /\ issued'[p] = <<"BEGIN">> \o promBody[p].changes \o <<"COMMIT">>
            /\ ~StatementFailed(p)
            /\ promResponse'[p].status = 200
            /\ prodDb' = prodDb \cup Created(promBody[p].changes)]_vars

\* C6 witness: a promotion whose second statement failed after the first
\* had created an object inside the transaction: rolled back, answered 500,
\* production as it was at the start.
C6_Witness ==
  \E p \in PromIds :
    /\ promPc[p] = "done"
    /\ Len(issued[p]) = 4
    /\ issued[p][2] = "CREATE INDEX IF NOT EXISTS b"
    /\ issued[p][3] = "INVALID SQL"
    /\ issued[p][4] = "ROLLBACK"
    /\ promResponse[p].status = 500
    /\ "b" \notin prodDb

\* C7: at most one promotion transaction (BEGIN .. COMMIT/ROLLBACK) is open
\* on the production database at any time.
C7_PromotionsSerialized ==
  Cardinality({p \in PromIds : tx[p] # "none"}) <= 1

\* The handle createFork returned for fork id x is a demo-mode handle
IsDemoFork(r, x) ==
  \E k \in 1..Len(createdForks[r]) : createdForks[r][k].id = x /\ createdForks[r][k].isDemoMode

\* C8 (both routes): deleteFork is never invoked for a demo-mode (fallback)
\* fork handle.
C8_FallbackNeverDeleted ==
  \A r \in active : \A k \in 1..Len(deleteCalls[r]) : ~IsDemoFork(r, deleteCalls[r][k])

\* The handler and everything it started have finished
Finished(r) ==
  /\ pc[r] = "done"
  /\ \A k \in 1..4 : runner[r][k] \in {"none", "returned", "rejected"}

\* C9 (both routes): agent.cleanup() is invoked exactly once for every agent
\* that was constructed: never twice, and once by the end of the run.
C9_CleanupExactlyOnce ==
  \A r \in active : \A k \in constructed[r] :
    /\ cleanupCalls[r][k] <= 1
    /\ Finished(r) => cleanupCalls[r][k] = 1

\* C10 (sequential route): deleteFork is invoked exactly once for the id of
\* every non-demo fork createFork returned: never twice, and once by the end
\* of the run.
C10_DeleteExactlyOnce ==
  \A r \in active : \A k \in 1..Len(createdForks[r]) :
    ~createdForks[r][k].isDemoMode =>
      /\ Count(deleteCalls[r], createdForks[r][k].id) <= 1
      /\ pc[r] = "done" => Count(deleteCalls[r], createdForks[r][k].id) = 1

\* Forks of request r that exist at the provider
LiveForks(r) ==
  {k \in 1..Len(createdForks[r]) :
     ~createdForks[r][k].isDemoMode /\ createdForks[r][k].id \in providerForks}

\* C11 (sequential route, real forks): at every moment at most one fork
\* created by the run exists at the provider: createFork for the next
\* strategy is called only after the fork of the previous one was deleted,
\* whatever the agent and deleteFork did.
C11_OneForkAtATime ==
  \A r \in active :
    /\ Cardinality(LiveForks(r)) <= 1
    /\ pc[r] = "createFork" => LiveForks(r) = {}

\* ------------------------------------- two sequential requests in flight
\* Strategies per request when two requests run at the same time
MaxConcurrentStrategies == 1

\* Two POST /api/optimize requests received by the same server process
\* before either has run: the handlers share the TigerService singleton and
\* the provider account, and interleave at their await points.
InitSeq2 ==
  /\ InitRequests({1, 2})
  /\ PromoteIdle
  /\ AgentIdle
  /\ CalcIdle
  /\ \A r \in ReqIds :
       /\ problemDescription[r] = "slow queries"
       /\ Len(selectedStrategies[r]) \in 1..MaxConcurrentStrategies
       /\ AllKnown(r)

SpecSeq2 == InitSeq2 /\ [][NextSeq]_vars

\* C12 (sequential mode, two or more requests in flight): the number of
\* forks that exist at the provider never exceeds one (the free-tier limit
\* of one fork beside the main service), for every interleaving of the
\* requests' await points.
C12_FreeTierLimit ==
  Cardinality(providerForks) <= 1

\* C13 (parallel route): a failure confined to one strategy (createFork
\* throwing, a strategy id without agent class, the agent's constructor,
\* optimize or cleanup throwing) never keeps the other strategies' results
\* from being returned: the request answers success = true with exactly one
\* result per selected strategy, in selection order.
C13_FailureIsolated ==
  \A r \in active :
    (pc[r] = "done" /\ problemDescription[r] # "" /\ Len(selectedStrategies[r]) >= 1) =>
      /\ response[r].status = 200
      /\ response[r].success
      /\ Len(universes[r]) = Len(selectedStrategies[r])
      /\ \A k \in 1..Len(universes[r]) : universes[r][k].id = universeNames[k]

\* Nothing of request r is left to run: the handler has answered, every
\* runner promise is settled and no deferred cleanup is pending
Quiescent(r) ==
  /\ Finished(r)
  /\ timer[r] \notin 1..Len(forks[r])

\* C14 (parallel route): every fork createFork returned during a request
\* has deleteFork invoked for it on every exit path of the request, the 500
\* path of a rejected runner promise included.  Finite-run form: once
\* nothing of the request is left to run, deleteFork was called for the id
\* of each provider fork that createFork returned.
C14_EveryForkDeleted ==
  \A r \in active :
    Quiescent(r) =>
      \A k \in 1..Len(createdForks[r]) :
        ~createdForks[r][k].isDemoMode => Count(deleteCalls[r], createdForks[r][k].id) >= 1

\* C15: createFork never raises to its caller: when the provider command
\* fails or provisioning is disabled it returns a fallback handle, so every
\* iteration of the fork loop that has run produced a fork handle, and a
\* provider failure never yields a failed run.
C15_CreateForkNeverRaises ==
  \A r \in active :
    (pc[r] # "start" /\ problemDescription[r] # "") =>
      /\ Len(createdForks[r]) = i[r] - 1
      /\ (pc[r] = "done" /\ AllKnown(r) /\ Len(selectedStrategies[r]) >= 1
            /\ \A k \in 1..4 : runner[r][k] # "rejected") => response[r].status = 200

\* The event loop runs every continuation that is ready: a handler whose
\* awaited promise has settled is resumed.
SpecSeqFair == InitSeq /\ [][NextSeq]_vars /\ WF_vars(NextSeq)

\* C16: when the fork provider never answers a create request, createFork
\* still returns and the optimize request eventually sends its response;
\* the handler never waits forever on fork creation.
C16_RequestAnswered ==
  \A r \in ReqIds : (r \in active) ~> (pc[r] = "done")

\* ------------------------------------------------- one agent's run
AgentClasses == {"IndexAgent", "QueryAgent", "CacheAgent", "SchemaAgent"}

\* The awaited method calls of optimize(), in program order
Methods(class) ==
  CASE class = "IndexAgent" ->
         <<"analyzeDatabase", "getIndexRecommendations", "benchmarkQueries",
           "applyIndexes", "benchmarkQueries">>
    [] class = "QueryAgent" ->
         <<"findSlowQueries", "analyzeQueryPlans", "getQueryRewrites", "benchmarkRewrites">>
    [] class = "CacheAgent" ->
         <<"findFrequentQueries", "createMaterializedViews", "benchmarkCacheImpact">>
    [] class = "SchemaAgent" ->
         <<"analyzeTables", "applySchemaOptimizations", "measureImpact">>
    [] OTHER -> <<>>

\* CREATE EXTENSION IF NOT EXISTS pg_stat_statements
Extension == "pg_stat_statements"

\* CREATE INDEX IF NOT EXISTS idx_<table>_<column>_optimized, one per recommendation
IndexObjects == {"idx_users_email_optimized", "idx_orders_id_optimized"}

\* CREATE MATERIALIZED VIEW IF NOT EXISTS mv_cache_optimized_1 and its index
ViewObject == "mv_cache_optimized_1"
ViewIndexObject == "idx_mv_cache_optimized_1_tablename"

\* ALTER TABLE <table> ADD CONSTRAINT chk_<table>_valid
ConstraintObject == "chk_users_valid"

\* What one method call did: `raised` when a database call of it raised,
\* `thrown` when the exception left the method, `creates` the objects its
\* successful statements created.
Quiet == [raised |-> FALSE, thrown |-> FALSE, creates |-> {}]
Thrown == [raised |-> TRUE, thrown |-> TRUE, creates |-> {}]
Swallowed(objs) == [raised |-> TRUE, thrown |-> FALSE, creates |-> objs]
Applied(objs) == [raised |-> FALSE, thrown |-> FALSE, creates |-> objs]

\* The outcomes of each method.  pool.connect() stands outside every inner
\* try block, so its rejection leaves the method; a statement inside an
\* inner try/catch that fails is logged and skipped.
Call(method) ==
  CASE method = "analyzeDatabase" ->
         \* CREATE EXTENSION in its own try/catch, then three SELECTs unguarded
         {Thrown} \cup
         {[raised |-> e \/ q, thrown |-> q, creates |-> IF e THEN {} ELSE {Extension}] :
            e \in BOOLEAN, q \in BOOLEAN}
    [] method = "findSlowQueries" ->
         \* CREATE EXTENSION in its own try/catch, the SELECT caught: sample rows
         {Thrown} \cup
         {[raised |-> e \/ q, thrown |-> FALSE, creates |-> IF e THEN {} ELSE {Extension}] :
            e \in BOOLEAN, q \in BOOLEAN}
    [] method = "findFrequentQueries" -> {Thrown, Quiet, Swallowed({})}
    [] method = "analyzeTables" -> {Thrown, Quiet}
    [] method \in {"benchmarkQueries", "analyzeQueryPlans", "benchmarkRewrites"} ->
         {Thrown, Quiet, Swallowed({})}
    [] method = "applyIndexes" ->
         {Thrown} \cup
         {[raised |-> objs # IndexObjects, thrown |-> FALSE, creates |-> objs] :
            objs \in SUBSET IndexObjects}
    [] method = "createMaterializedViews" ->
         {Thrown, Swallowed({}), Swallowed({ViewObject}), Applied({ViewObject, ViewIndexObject})}
    [] method = "applySchemaOptimizations" ->
         {Thrown, Swallowed({}), Applied({ConstraintObject})}
    [] OTHER -> {Quiet}

\* One agent constructed on the handle createFork returned: a fallback
\* handle carries connectionString = process.env.DATABASE_URL, the main
\* database.  The fork is a copy of the main database.
InitAgent ==
  /\ InitRequests({})
  /\ CalcIdle
  /\ \E db \in SUBSET {Extension} : PromoteIdleOn(db) /\ forkDb = db
  /\ agClass \in AgentClasses
  /\ \E f \in createFork(cliAvailable, 1) : mainDatabase = f.isDemoMode
  /\ phase = 0
  /\ calls = <<>>
  /\ raised = FALSE
  /\ agStatus = "none"
  /\ appliedChanges = {}
  /\ details = Absent
  /\ pushed = NoEntry

\* The statements a method pushes to this.appliedChanges: the CREATE INDEX,
\* CREATE MATERIALIZED VIEW and ADD CONSTRAINT statements that succeeded.
\* CREATE EXTENSION is never recorded.
AppliedStatements(creates) == creates \ {Extension}

\* (variant: the failed result carries this.appliedChanges too)
DetailsKeptOnFailure(status, class, changes) ==
  IF class = "QueryAgent" \/ status = "none"
  THEN Absent
  ELSE [present |-> TRUE, appliedChanges |-> changes]

\* details.appliedChanges of the object optimize() returns: the complete
\* result of Index, Cache and Schema agents has details.appliedChanges =
\* this.appliedChanges; QueryAgent's has details.optimizations; the failed
\* result of the catch block has no details.
Details(status, class, changes) ==
  IF status = "complete" /\ class # "QueryAgent"
  THEN [present |-> TRUE, appliedChanges |-> changes]
  ELSE Absent

\* optimize(): the next awaited method call.  An exception that leaves the
\* method is caught by optimize's catch block, which returns the failed
\* result; after the last method the complete result is returned.
AgentCall ==
  /\ agClass # "none"
  /\ agStatus = "none"
  /\ phase < Len(Methods(agClass))
  /\ \E o \in Call(Methods(agClass)[phase + 1]) :
       /\ raised' = (raised \/ o.raised)
       /\ IF mainDatabase
          THEN prodDb' = prodDb \cup o.creates /\ forkDb' = forkDb
          ELSE forkDb' = forkDb \cup o.creates /\ prodDb' = prodDb
       /\ appliedChanges' = appliedChanges \cup AppliedStatements(o.creates)
       /\ IF o.thrown
          THEN agStatus' = "failed" /\ phase' = phase
          ELSE /\ phase' = phase + 1
               /\ agStatus' = IF phase + 1 = Len(Methods(agClass)) THEN "complete" ELSE "none"
  /\ details' = Details(agStatus', agClass, appliedChanges')
  /\ calls' = Append(calls, Methods(agClass)[phase + 1])
  /\ UNCHANGED <<optVars, calcVars, agClass, mainDatabase, pushed, databaseUrl, promBody, promPc, promK,
                 tx, txWrites, promError, promResponse, issued, checkedOut, releases>>

\* The route calls agent.cleanup() after optimize() returned and pushes
\* {...result} to `universes`; when cleanup() rejects, its catch block
\* pushes the failed entry instead, which has no details.
AgentCleanup ==
  /\ agStatus \in {"complete", "failed"}
  /\ \A k \in 1..Len(calls) : calls[k] # "cleanup"
  /\ calls' = Append(calls, "cleanup")
  /\ \E outcome \in cleanup :
       pushed' = IF outcome = "ok"
                 THEN [status |-> agStatus, details |-> details]
                 ELSE [status |-> "failed", details |-> Absent]
  /\ UNCHANGED <<optVars, promVars, calcVars, agClass, mainDatabase, phase, forkDb, raised,
                 agStatus, appliedChanges, details>>

NextAgent == AgentCall \/ AgentCleanup

SpecAgent == InitAgent /\ [][NextAgent]_vars

\* C17: for every agent an exception raised by any database call in any
\* phase of optimize(), a failing statement inside the apply or benchmark
\* phase included, yields a result with status failed; a result has status
\* complete only if no database call raised.
C17_RaiseMeansFailed ==
  /\ agStatus = "complete" => ~raised
  /\ (raised /\ agStatus # "none") => agStatus = "failed"

\* The phase a method belongs to
Kind(method) ==
  CASE method \in {"analyzeDatabase", "findSlowQueries", "findFrequentQueries",
                   "analyzeTables", "analyzeQueryPlans"} -> "analyze"
    [] method \in {"getIndexRecommendations", "getQueryRewrites"} -> "recommend"
    [] method \in {"benchmarkQueries", "benchmarkRewrites", "benchmarkCacheImpact",
                   "measureImpact"} -> "benchmark"
    [] method \in {"applyIndexes", "createMaterializedViews",
                   "applySchemaOptimizations"} -> "apply"
    [] OTHER -> "cleanup"

\* C18: within one strategy run of any of the four agents the phases occur
\* in the order analyze, recommend, benchmark(before), apply,
\* benchmark(after), cleanup: analyze comes first, no apply is called before
\* a baseline benchmark was taken, a completed run took a benchmark after
\* apply, and cleanup is last.
C18_PhaseOrder ==
  /\ Len(calls) >= 1 => Kind(calls[1]) = "analyze"
  /\ \A k \in 1..Len(calls) :
       Kind(calls[k]) = "apply" =>
         /\ \E j \in 1..(k - 1) : Kind(calls[j]) = "benchmark"
         /\ agStatus = "complete" => \E j \in (k + 1)..Len(calls) : Kind(calls[j]) = "benchmark"
  /\ \A k \in 1..Len(calls) : Kind(calls[k]) = "cleanup" => k = Len(calls)

\* C19: the analyze method of every agent (analyzeDatabase, findSlowQueries,
\* findFrequentQueries, analyzeTables) issues no statement that changes the
\* database it is connected to: the objects and extensions of that database
\* are the same before and after the call.
C19_AnalyzeReadOnly ==
  [][(/\ Len(calls') = Len(calls) + 1
      /\ calls'[Len(calls')] \in {"analyzeDatabase", "findSlowQueries",
                                  "findFrequentQueries", "analyzeTables"})
       => (forkDb' = forkDb /\ prodDb' = prodDb)]_vars

\* C20: for every optimize run, runs on a fallback handle included, the
\* production (main) database after the run is what it was before it:
\* production changes only in the step that commits a promoteFork.
C20_ProductionUntouched ==
  [][prodDb' # prodDb =>
       \E p \in PromIds : Issued(p, "COMMIT")' /\ ~Issued(p, "COMMIT")]_vars

\* No applied changes in a result's details
NoChanges(d) == ~d.present \/ d.appliedChanges = {}

\* C21: every result with status failed, from the agent's own catch block
\* or from the route's catch block, carries no applied changes
\* (details.appliedChanges absent or empty), also when the failure came
\* after some apply statements had succeeded.
C21_FailedCarriesNoChanges ==
  /\ agStatus = "failed" => NoChanges(details)
  /\ pushed.status = "failed" => NoChanges(pushed.details)

\* C21 witness: the agent failed after apply statements had succeeded, and
\* the failed entry was pushed.
C21_Witness ==
  /\ agStatus = "failed"
  /\ appliedChanges # {}
  /\ pushed.status = "failed"

\* C22 (sequential route): a request with a missing or empty
\* problemDescription, or with an empty strategies list, is rejected as a
\* validation failure (400) before any createFork call and without any
\* other side effect: no agent constructed, no deleteFork issued.
C22_InvalidRequestRejected ==
  \A r \in active :
    (pc[r] = "done" /\ (problemDescription[r] = "" \/ Len(selectedStrategies[r]) = 0)) =>
      /\ response[r].status = 400
      /\ createdForks[r] = <<>>
      /\ constructed[r] = {}
      /\ deleteCalls[r] = <<>>

\* ------------------------------------------------------ calculations
\* Math.round(n / d) for d > 0: the nearest integer, halves upwards
Round(n, d) == (2 * n + d) \div (2 * d)

Max(a, b) == IF a >= b THEN a ELSE b

\* Math.max(0, Math.min(100, x))
clamp(x) == Max(0, Min(100, x))

\* Averaged latencies in ms (Date.now() differences; a fast query measures 0)
Latencies == {0, 5, 40, 100}

\* Math.random() in hundredths
Random == {0, 99}

\* An improvement that is a number
Number(x, synth) ==
  [NoOutput EXCEPT !.improvement = x, !.synthetic = synth]

\* An improvement that is NaN
NaN(synth) ==
  [NoOutput EXCEPT !.nan = TRUE, !.synthetic = synth]

\* The baselineTime and optimizedTime a calculation returns next to the
\* improvement, in hundredths of a ms
Times(out, baselineTime, optimizedTime) ==
  [out EXCEPT !.baselineTime = baselineTime, !.executionTime = optimizedTime]

\* IndexAgent.calculateImprovement(baseline, optimized): the simulated
\* branch when !isProductionMode or baseline.averageTime < 10, with
\* baselineTime = 200 + random * 100, improvementFactor = 0.25 + random * 0.25
\* (times in hundredths of a ms); the measured branch otherwise.
IndexAgent_calculateImprovement(isProductionMode, baseline, optimized, r1, r2) ==
  IF ~isProductionMode \/ baseline < 10
  THEN LET baselineTime == 20000 + 100 * r1
           optimizedTime == Round(baselineTime * (7500 - 25 * r2), 1000000)
       IN Times(Number(Round((baselineTime - 100 * optimizedTime) * 100, baselineTime), TRUE),
                100 * Round(baselineTime, 100), 100 * optimizedTime)
  ELSE Times(Number(clamp(Round((baseline - optimized) * 100, baseline)), FALSE),
             100 * baseline, 100 * optimized)

\* QueryAgent.calculateImprovement(results): zeros for no results; else
\* Math.round(Math.max(0, Math.min(100, (avgOriginal - avgOptimized) /
\* avgOriginal * 100))).  With avgOriginal = 0 the quotient is NaN (0/0),
\* which min, max and round hand on, or -Infinity, which max turns into 0.
QueryAgent_calculateImprovement(rows, avgOriginal, avgOptimized) ==
  IF rows = 0 THEN Number(0, FALSE)
  ELSE Times(IF avgOriginal = 0
             THEN IF avgOptimized = 0 THEN NaN(FALSE) ELSE Number(0, FALSE)
             ELSE IF avgOptimized >= avgOriginal THEN Number(0, FALSE)
                  ELSE Number(Round((avgOriginal - avgOptimized) * 100, avgOriginal), FALSE),
             100 * avgOriginal, 100 * avgOptimized)

\* CacheAgent.benchmarkCacheImpact(queries): avgQueryTime is NaN for an
\* empty `queries` (0 / 0), and NaN < 10 is false.  Both branches draw the
\* improvement factor from Math.random().
benchmarkCacheImpact(isProductionMode, rows, avgQueryTime, r1, r2) ==
  IF ~isProductionMode \/ (rows > 0 /\ avgQueryTime < 10)
  THEN LET baselineTime == 12000 + 80 * r1
           optimizedTime == Round(baselineTime * (6000 - 30 * r2), 1000000)
       IN Times(Number(Round((baselineTime - 100 * optimizedTime) * 100, baselineTime), TRUE),
                100 * Round(baselineTime, 100), 100 * optimizedTime)
  ELSE IF rows = 0 THEN NaN(TRUE)
       ELSE LET baselineTime == Max(avgQueryTime, 100)
                optimizedTime == Round(baselineTime * (7000 - 40 * r2), 10000)
            IN Times(Number(Round((baselineTime - optimizedTime) * 100, baselineTime), TRUE),
                     100 * baselineTime, 100 * optimizedTime)

\* SchemaAgent.measureImpact: baselineTime = 75, optimizedTime = 75 * 0.65
\* (times in hundredths of a ms)
measureImpact ==
  LET baselineTime == 7500
      optimizedTime == (baselineTime * 65) \div 100
  IN Times(Number(Round((baselineTime - optimizedTime) * 100, baselineTime), TRUE),
           baselineTime, optimizedTime)

\* (variant: the agentic cost grows with forkCount)
calculateCostSavingsPerFork(forkCount) ==
  LET traditionalCost == forkCount * 1188
      agenticCost == forkCount * 2
  IN [NoOutput EXCEPT !.traditional = traditionalCost, !.agentic = agenticCost,
                      !.savingsMultiplier = Round(traditionalCost, agenticCost),
                      !.forkCount = forkCount]

\* calculateCostSavings(forkCount), amounts in cents: traditionalCost =
\* forkCount * 11.88, agenticCost = 0.02, savings = traditionalCost /
\* agenticCost, savingsMultiplier = Math.round(savings).
calculateCostSavings(forkCount) ==
  LET traditionalCost == forkCount * 1188
      agenticCost == 2
  IN [NoOutput EXCEPT !.traditional = traditionalCost, !.agentic = agenticCost,
                      !.savingsMultiplier = Round(traditionalCost, agenticCost),
                      !.forkCount = forkCount]

\* toFixed(2) of an amount in cents: the dollars and the two decimals
toFixed(cents) == <<cents \div 100, cents % 100>>

\* The arguments a calculation can be called with
InitCalc ==
  /\ InitRequests({})
  /\ PromoteIdle
  /\ AgentIdle
  /\ measured \in [isProductionMode : BOOLEAN, baseline : Latencies, optimized : Latencies,
                   rows : {0, 1}, random1 : Random, random2 : Random, forkCount : 1..4]
  /\ computed = NoOutput

\* What optimize() puts into the result it returns: improvement from the
\* calculation; the result object has no field that tells a synthetic
\* estimate from a measured one.
Returned(fn, out) == [out EXCEPT !.fn = fn, !.marker = FALSE]

\* IndexAgent.optimize takes improvement from calculateImprovement, but
\* executionTime: optimizedMetrics.averageTime and baselineTime:
\* baselineMetrics.averageTime from the two benchmark runs.
IndexAgent_result(improvement, baselineMetrics, optimizedMetrics) ==
  Times(improvement, 100 * baselineMetrics, 100 * optimizedMetrics)

CalcIndex ==
  /\ computed.fn = "none"
  /\ computed' = Returned("IndexAgent",
                   IndexAgent_result(
                     IndexAgent_calculateImprovement(measured.isProductionMode, measured.baseline,
                       measured.optimized, measured.random1, measured.random2),
                     measured.baseline, measured.optimized))
  /\ UNCHANGED <<optVars, promVars, agVars, measured>>

CalcQuery ==
  /\ computed.fn = "none"
  /\ computed' = Returned("QueryAgent",
                   QueryAgent_calculateImprovement(measured.rows, measured.baseline,
                     measured.optimized))
  /\ UNCHANGED <<optVars, promVars, agVars, measured>>

CalcCache ==
  /\ computed.fn = "none"
  /\ computed' = Returned("CacheAgent",
                   benchmarkCacheImpact(measured.isProductionMode, measured.rows,
                     measured.baseline, measured.random1, measured.random2))
  /\ UNCHANGED <<optVars, promVars, agVars, measured>>

CalcSchema ==
  /\ computed.fn = "none"
  /\ computed' = Returned("SchemaAgent", measureImpact)
  /\ UNCHANGED <<optVars, promVars, agVars, measured>>

\* const costSavings = calculateCostSavings(selectedStrategies.length)
CalcCost ==
  /\ computed.fn = "none"
  /\ computed' = [calculateCostSavings(measured.forkCount) EXCEPT !.fn = "calculateCostSavings"]
  /\ UNCHANGED <<optVars, promVars, agVars, measured>>

NextCalc == CalcIndex \/ CalcQuery \/ CalcCache \/ CalcSchema \/ CalcCost

SpecCalc == InitCalc /\ [][NextCalc]_vars

\* The result of an agent
IsImprovement(out) == out.fn \in AgentClasses

\* C23: whenever an agent substitutes a synthetic improvement estimate for
\* the measured one, the result it returns carries an explicit marker
\* saying so; a result without the marker reports a measured improvement.
C23_SyntheticIsMarked ==
  IsImprovement(computed) => (computed.synthetic => computed.marker)

\* C24: for every agent and every pair of measured latencies, a baseline of
\* 0 ms included, the improvement of a Complete result is an integer in
\* 0..100: never negative, never above 100, never NaN.
C24_ImprovementInRange ==
  IsImprovement(computed) => (~computed.nan /\ computed.improvement \in 0..100)

C26_ReadmeFigures ==
  (computed.fn = "calculateCostSavings" /\ measured.forkCount = 4) =>
    /\ toFixed(computed.traditional) = <<47, 50>>
    /\ toFixed(computed.agentic) = <<0, 2>>
    /\ computed.savingsMultiplier = 2375

\* The k-th entry of `us` is the result of the k-th selected strategy of r.
EntryOfSelected(r, us, k) ==
  /\ us[k].id = universeNames[k]
  /\ us[k].agent = strategyMap(selectedStrategies[r][k])
  /\ us[k].forkId = createdForks[r][k].id

\* C27: in the parallel route, in whatever order the agents complete, the
\* i-th entry of the returned results belongs to the i-th selected strategy
\* (id, agent and forkId), and the winner is the reduce over the results in
\* that order.
C27_EntryOfIthStrategy ==
  \A r \in ReqIds :
    response[r].status = 200 =>
      /\ \A k \in 1..Len(universes[r]) : EntryOfSelected(r, universes[r], k)
      /\ winner[r] = reduce(universes[r])

\* The part of C27 that is about completion order: every promise resolves to
\* the result of its own entry of `forks`, and the response lists them in the
\* order of `forks`.
ResultsInForkOrder ==
  \A r \in ReqIds :
    /\ \A k \in 1..Len(forks[r]) :
         runner[r][k] = "returned" =>
           /\ returned[r][k].id = forks[r][k].universeName
           /\ returned[r][k].agent = strategyMap(forks[r][k].strategy)
           /\ returned[r][k].forkId = forks[r][k].fork.id
    /\ response[r].status = 200 =>
         /\ universes[r] = [k \in 1..Len(forks[r]) |-> returned[r][k]]
         /\ winner[r] = reduce(universes[r])

\* Two agents of one request that complete against the order of `forks`
CompletedOutOfOrder ==
  \E r \in ReqIds :
    /\ Len(forks[r]) = 2
    /\ runner[r][2] = "returned"
    /\ runner[r][1] = "optimize"

\* C28 (parallel route): no deleteFork is invoked before the winner is
\* selected and the response sent; once the deferred cleanup that starts
\* after the grace period has run, deleteFork was attempted exactly once for
\* every created fork, in the order of `forks`, whether or not one of the
\* attempts threw.
C28_DeferredCleanup ==
  \A r \in ReqIds :
    /\ deleteCalls[r] # <<>> =>
         /\ response[r].status = 200
         /\ winner[r] = reduce(universes[r])
    /\ timer[r] \in 1..Len(forks[r]) => Len(deleteCalls[r]) = timer[r] - 1
    /\ timer[r] = -1 =>
         /\ deleteCalls[r] = [k \in 1..Len(createdForks[r]) |-> createdForks[r][k].id]
         /\ \A k \in 1..Len(createdForks[r]) :
              Count(deleteCalls[r], createdForks[r][k].id) = 1

\* C28 witness: the deferred cleanup of two provider forks has finished; the
\* delete of the first fork threw (the fork is still at the provider) and
\* the second fork was deleted all the same
C28_Witness ==
  \E r \in ReqIds :
    /\ timer[r] = -1
    /\ Len(createdForks[r]) = 2
    /\ Len(deleteCalls[r]) = 2
    /\ createdForks[r][1].id \in providerForks
    /\ createdForks[r][2].id \notin providerForks

\* The promote request p names a fork of run r
PromotesRun(p, r) ==
  \E k \in 1..Len(universes[r]) : promBody[p].forkId = ForkIdText(universes[r][k].forkId)

NoneComplete(r) ==
  /\ pc[r] = "done"
  /\ \A k \in 1..Len(universes[r]) : universes[r][k].status # "complete"

\* C29: when no result of a run is Complete, no promotion of that run can
\* be performed: the UI offers the promote action for none of its
\* universes, and POST /api/optimize/promote sends no statement to
\* production for a forkId of that run.
C29_NoPromotionWithoutComplete ==
  \A r \in active :
    NoneComplete(r) =>
      /\ \A k \in 1..Len(universes[r]) : ~PromoteOffered(universes[r][k], response[r].winner)
      /\ \A p \in PromIds : PromotesRun(p, r) => \A stmt \in Statements : ~Issued(p, stmt)

\* A change list as a Complete result carries it: every statement is one of
\* the guarded creations the agents record after they succeeded on the fork
AppliedChangesList(changes) ==
  \A k \in 1..Len(changes) : Creates(changes[k]) # {}

\* What the promote route answers when the connection to production broke
ConnectionFailures == {"connect failed", "BEGIN failed", "COMMIT failed", "ROLLBACK failed"}

\* Some other promotion of the same change list has been answered 200
PromotedBefore(q) ==
  \E p \in PromIds \ {q} :
    /\ promResponse[p].status = 200
    /\ promBody[p].changes = promBody[q].changes

\* C30: promoting the appliedChanges list of a Complete result twice in a
\* row, or again after a promotion that failed and was rolled back, succeeds
\* (no statement of the list is rejected; only a broken connection makes the
\* request fail) and leaves production in the same state as promoting it
\* once: a promotion answered 200 has all objects of the list in production,
\* a failed one leaves production as it was, and so does every step of a
\* promotion whose list was promoted before.
C30_RepromoteIdempotent ==
  [][\A q \in PromIds :
       (promPc[q] # "done" /\ AppliedChangesList(promBody[q].changes)) =>
         /\ promResponse'[q].status = 500 =>
              /\ promResponse'[q].message \in ConnectionFailures
              /\ prodDb' = prodDb
         /\ promResponse'[q].status = 200 =>
              Created(promBody[q].changes) \subseteq prodDb'
         /\ PromotedBefore(q) => prodDb' = prodDb]_vars

\* C30 witness: the same two-statement list promoted twice, both answered 200
C30_Witness ==
  \E p, q \in PromIds :
    /\ p # q
    /\ promBody[p].changes = <<"CREATE INDEX IF NOT EXISTS a", "CREATE INDEX IF NOT EXISTS b">>
    /\ promBody[q].changes = promBody[p].changes
    /\ promResponse[p].status = 200
    /\ promResponse[q].status = 200
    /\ Count(issued[q], "COMMIT") = 1
    /\ prodDb = {"a", "b"}

\* C30 witness of the retry: a promotion that failed and was rolled back,
\* then the same list promoted with success
PromoteRetried ==
  \E p, q \in PromIds :
    /\ promBody[p].changes = <<"CREATE INDEX IF NOT EXISTS b">>
    /\ promBody[q].changes = promBody[p].changes
    /\ promResponse[p].status = 500
    /\ Issued(p, "ROLLBACK")
    /\ promResponse[q].status = 200
    /\ "b" \in prodDb

\* ------------------------------------------------- advisory lookup
\* What client.messages.create can do: answer with a text, answer with an
\* empty content array, or reject (network error, bad key, rate limit).
ServiceOutcomes == {"text", "empty", "reject"}

\* Tables the analysis can name
Tables == {"orders", "items"}

\* mcpService.searchPostgresDocs(query): without a client the fallback text,
\* no call; otherwise the call inside try/catch, where a rejection and the
\* TypeError of response.content[0].text on an empty answer are both caught.
searchPostgresDocs(hasClient, outcome) ==
  IF ~hasClient
  THEN [text |-> "Using rule-based optimization strategies.", called |-> FALSE, raised |-> FALSE]
  ELSE IF outcome = "text"
       THEN [text |-> "response.content[0].text", called |-> TRUE, raised |-> FALSE]
       ELSE [text |-> "Unable to fetch documentation at this time.", called |-> TRUE,
             raised |-> FALSE]

\* (variant: the recommendations are taken from the guidance when the
\* service answered)
getIndexRecommendationsFromGuidance(guidance, missingIndexes, tableStats) ==
  IF guidance = "response.content[0].text"
  THEN <<[tableName |-> "users", columnName |-> "guidance"]>>
  ELSE <<[tableName |-> IF Len(missingIndexes) > 0 THEN missingIndexes[1] ELSE "users",
          columnName |-> "email"]>>
       \o [k \in 1..Min(2, Len(tableStats)) |-> [tableName |-> tableStats[k], columnName |-> "id"]]

\* IndexAgent.getIndexRecommendations after the guidance came back: one
\* recommendation for missingIndexes[0] (or 'users') on email, and one on id
\* for each of the first two tables of tableStats.
getIndexRecommendations(guidance, missingIndexes, tableStats) ==
  <<[tableName |-> IF Len(missingIndexes) > 0 THEN missingIndexes[1] ELSE "users",
     columnName |-> "email"]>>
  \o [k \in 1..Min(2, Len(tableStats)) |-> [tableName |-> tableStats[k], columnName |-> "id"]]

NoGuidance ==
  [fn |-> "none", text |-> "", called |-> FALSE, raised |-> FALSE, recommendations |-> <<>>]

\* getIndexRecommendations is called with an analysis, in a process with or
\* without an API key, and the service will behave in one of its ways.
InitAdvisory ==
  /\ InitRequests({})
  /\ PromoteIdle
  /\ AgentIdle
  /\ measured \in [hasClient : BOOLEAN, outcome : ServiceOutcomes,
                   missingIndexes : DistinctSeqs(Tables, 1),
                   tableStats : DistinctSeqs(Tables \cup {"users"}, 3)]
  /\ computed = NoGuidance

\* const guidance = await mcpService.searchPostgresDocs(query)
AdvSearch ==
  /\ computed.fn = "none"
  /\ LET g == searchPostgresDocs(measured.hasClient, measured.outcome)
     IN computed' = [fn |-> "searchPostgresDocs", text |-> g.text, called |-> g.called,
                     raised |-> g.raised, recommendations |-> <<>>]
  /\ UNCHANGED <<optVars, promVars, agVars, measured>>

\* the rest of getIndexRecommendations: return recommendations
AdvRecommend ==
  /\ computed.fn = "searchPostgresDocs"
  /\ ~computed.raised
  /\ computed' = [computed EXCEPT
                    !.fn = "getIndexRecommendations",
                    !.recommendations = getIndexRecommendations(computed.text,
                                          measured.missingIndexes, measured.tableStats)]
  /\ UNCHANGED <<optVars, promVars, agVars, measured>>

NextAdvisory == AdvSearch \/ AdvRecommend

SpecAdvisory == InitAdvisory /\ [][NextAdvisory]_vars

C32_AppliedInOrder ==
  \A p \in PromIds :
    /\ promResponse[p].status = 200 =>
         /\ issued[p] = <<"BEGIN">> \o promBody[p].changes \o <<"COMMIT">>
         /\ promResponse[p].appliedChanges = Len(promBody[p].changes)
    /\ promResponse[p].status # 200 => promResponse[p].appliedChanges = NoCount

\* C32 witness: a promotion of two different statements answered 200
C32_Witness ==
  \E p \in PromIds :
    /\ promResponse[p].status = 200
    /\ promBody[p].changes = <<"CREATE INDEX IF NOT EXISTS b", "CREATE INDEX IF NOT EXISTS a">>
    /\ promResponse[p].appliedChanges = 2

\* round(clamp((baselineTime - executionTime) / baselineTime * 100, 0, 100))
\* of two reported times; NaN (0 / 0) when both are 0.
ImprovementOf(baselineTime, executionTime) ==
  IF baselineTime = 0
  THEN [nan |-> executionTime = 0, value |-> 0]
  ELSE [nan |-> FALSE,
        value |-> IF executionTime >= baselineTime THEN 0
                  ELSE Round((baselineTime - executionTime) * 100, baselineTime)]

\* C33: for every Complete result of every agent the reported improvement
\* equals round(clamp((baselineTime - executionTime) / baselineTime * 100,
\* 0, 100)) of the baselineTime and executionTime reported in that same
\* result, the simulated path included.
C33_ImprovementMatchesTimes ==
  IsImprovement(computed) =>
    LET expected == ImprovementOf(computed.baselineTime, computed.executionTime)
    IN /\ ~computed.nan
       /\ ~expected.nan
       /\ computed.improvement = expected.value

\* IndexAgent on the simulated path with measured times that differ from
\* the simulated ones
IndexSimulatedMismatch ==
  /\ computed.fn = "IndexAgent"
  /\ computed.synthetic
  /\ computed.baselineTime = 4000
  /\ computed.executionTime = 4000
  /\ computed.improvement > 0

\* C34: for IndexAgent and CacheAgent the appliedChanges list of a Complete
\* result holds exactly the mutating statements that succeeded against the
\* fork: what the run created in the fork (the fork started as a copy of
\* production) is what the list records, no more and no less.
C34_AppliedChangesExact ==
  (agClass \in {"IndexAgent", "CacheAgent"} /\ agStatus = "complete" /\ ~mainDatabase) =>
    /\ details.present
    /\ details.appliedChanges = forkDb \ prodDb

\* The part of C34 about the apply phase: the list records exactly the
\* indexes and views the run created
ApplyPhaseRecorded ==
  (agClass \in {"IndexAgent", "CacheAgent"} /\ agStatus = "complete" /\ ~mainDatabase) =>
    /\ details.present
    /\ details.appliedChanges = (forkDb \ prodDb) \ {Extension}

\* The statement of p's change list that failed: the last one sent before
\* the ROLLBACK
Offending(p) == issued[p][Len(issued[p]) - 1]

\* C35: when a statement fails during promotion, the error surfaced to the
\* caller (HTTP 500, 'Failed to promote fork: ...') carries the message of
\* the offending statement, also when the ROLLBACK that follows fails too.
C35_StatementErrorSurfaced ==
  \A p \in PromIds :
    (promPc[p] = "done" /\ StatementFailed(p)) =>
      /\ promResponse[p].status = 500
      /\ promResponse[p].message = Offending(p)

\* The part of C35 without a failing ROLLBACK
StatementErrorSurfacedOrRollbackFailed ==
  \A p \in PromIds :
    (promPc[p] = "done" /\ StatementFailed(p)) =>
      /\ promResponse[p].status = 500
      /\ promResponse[p].message \in {Offending(p), "ROLLBACK failed"}

\* Request p obtained a client from the production pool
Connected(p) == Len(issued[p]) > 0

\* C37: every promoteFork call that obtained a client releases it exactly
\* once before it returns or raises (success, statement failure, BEGIN,
\* COMMIT or ROLLBACK failing); a call that got no client releases nothing;
\* once all promotions have answered no client is checked out.
C37_ClientReleasedOnce ==
  \A p \in PromIds :
    /\ releases[p] <= 1
    /\ checkedOut[p] => (promPc[p] # "done" /\ releases[p] = 0)
    /\ promPc[p] = "done" =>
         /\ ~checkedOut[p]
         /\ releases[p] = IF Connected(p) THEN 1 ELSE 0

\* C37 witness: both promotions have answered, one after a statement failure
\* whose ROLLBACK failed too, the other after a failed COMMIT
C37_Witness ==
  \E p, q \in PromIds :
    /\ promPc[p] = "done" /\ promPc[q] = "done"
    /\ StatementFailed(p)
    /\ promResponse[p].message = "ROLLBACK failed"
    /\ Issued(q, "COMMIT")
    /\ promResponse[q].status = 500
    /\ releases[p] = 1 /\ releases[q] = 1

\* ------------------------------------------------ createFork in detail
\* What `tiger service fork` can print, word by word; the label is the
\* text "New Service ID:" that precedes the id of the new service.
Words == {"New Service ID:", "hosdzr5zco", "Successfully", "fork"}

\* Longest output of the fork command, in words
MaxWords == 2

\* The service id the provider gave the fork it created
NewServiceId == "hosdzr5zco"

\* parseForkId found nothing: null
Null == "null"

\* Number of characters of a word that match [a-z0-9] in one run
AlnumRun(word) ==
  CASE word = "hosdzr5zco" -> 10
    [] word = "Successfully" -> 12
    [] word = "fork" -> 4
    [] OTHER -> 7

\* The ten characters ([a-z0-9]{10}) matches in a word
FirstTen(word) ==
  CASE word = "Successfully" -> "Successful"
    [] OTHER -> word

\* First position of `output` from k on that satisfies the test, 0 if none
RECURSIVE LabelAt(_, _)
LabelAt(output, k) ==
  IF k >= Len(output) THEN 0
  ELSE IF output[k] = "New Service ID:" /\ output[k + 1] # "New Service ID:" THEN k
       ELSE LabelAt(output, k + 1)

RECURSIVE LongWordAt(_, _)
LongWordAt(output, k) ==
  IF k > Len(output) THEN 0
  ELSE IF output[k] # "New Service ID:" /\ AlnumRun(output[k]) >= 10 THEN k
       ELSE LongWordAt(output, k + 1)

\* parseForkId(output): the word after "New Service ID:", else the first
\* ten alphanumeric characters in a row anywhere in the output, else null.
parseForkId(output) ==
  IF LabelAt(output, 1) # 0 THEN output[LabelAt(output, 1) + 1]
  ELSE IF LongWordAt(output, 1) # 0 THEN FirstTen(output[LongWordAt(output, 1)])
       ELSE Null

\* getForkConnectionString(forkId) with the CLI enabled: the service list
\* names the fork (with or without a password in .pgpass), or it does not,
\* or the command fails; in the last two cases the string is built from
\* DATABASE_URL by replacing the main service id in the host name, and
\* new URL(undefined) throws when DATABASE_URL is not set.
getForkConnectionString(forkId, list, password, urlSet) ==
  IF list = "listed" /\ forkId = NewServiceId
  THEN [threw |-> FALSE,
        connectionString |-> IF password THEN "tsdbadmin:password@fork" ELSE "tsdbadmin@fork"]
  ELSE IF urlSet
       THEN [threw |-> FALSE, connectionString |-> "DATABASE_URL with host replaced"]
       ELSE [threw |-> TRUE, connectionString |-> ""]

\* The handle of the demo mode and of the catch block
DemoHandle(atProvider) ==
  [fn |-> "createFork", id |-> "fork-timestamp-random", isDemoMode |-> TRUE,
   connectionString |-> "DATABASE_URL", atProvider |-> atProvider]

NoHandle ==
  [fn |-> "none", id |-> "", isDemoMode |-> FALSE, connectionString |-> "",
   atProvider |-> FALSE]

\* createFork(forkName) is called; the environment decides what the CLI does.
InitCreateFork ==
  /\ InitRequests({})
  /\ PromoteIdle
  /\ AgentIdle
  /\ measured \in [exec : {"exit 0", "fail"},
                   stdout : UNION {[1..n -> Words] : n \in 0..MaxWords},
                   list : {"listed", "unlisted", "fail"},
                   password : BOOLEAN,
                   urlSet : BOOLEAN]
  /\ computed = NoHandle

\* Up to `await execAsync(command)`: the demo handle without the CLI or when
\* the command fails; otherwise the provider has created the fork.
ForkExec ==
  /\ computed.fn = "none"
  /\ computed' = IF ~cliAvailable \/ measured.exec = "fail"
                 THEN DemoHandle(FALSE)
                 ELSE [NoHandle EXCEPT !.fn = "execAsync", !.atProvider = TRUE]
  /\ UNCHANGED <<optVars, promVars, agVars, measured>>

\* parseForkId(stdout), await getForkConnectionString(forkId), return the
\* handle {id: forkId, name, connectionString, createdAt, status}; an
\* exception enters the catch block, which returns the demo handle.
ForkReturn ==
  /\ computed.fn = "execAsync"
  /\ LET forkId == parseForkId(measured.stdout)
         c == getForkConnectionString(forkId, measured.list, measured.password,
                                      measured.urlSet)
     IN computed' = IF c.threw
                    THEN DemoHandle(TRUE)
                    ELSE [fn |-> "createFork", id |-> forkId, isDemoMode |-> FALSE,
                          connectionString |-> c.connectionString, atProvider |-> TRUE]
  /\ UNCHANGED <<optVars, promVars, agVars, measured>>

NextCreateFork == ForkExec \/ ForkReturn

SpecCreateFork == InitCreateFork /\ [][NextCreateFork]_vars

\* C36: every handle createFork returns without the fallback flag has a
\* non-null id that identifies a fork created at the provider; an output
\* without a parsable service id never yields a non-fallback handle with
\* id = null.
C36_RealHandleHasForkId ==
  (computed.fn = "createFork" /\ ~computed.isDemoMode) =>
    /\ computed.id # Null
    /\ computed.atProvider
    /\ computed.id = NewServiceId

\* The output names the new service and createFork returns its id
ForkIdParsed ==
  /\ computed.fn = "createFork"
  /\ ~computed.isDemoMode
  /\ measured.stdout = <<"New Service ID:", "hosdzr5zco">>
  /\ computed.id = NewServiceId
  /\ computed.connectionString = "tsdbadmin:password@fork"

\* The fork exists at the provider and createFork returned the demo handle
ForkCreatedButDemoHandle ==
  /\ computed.fn = "createFork"
  /\ computed.isDemoMode
  /\ computed.atProvider

\* ------------------------------------- promotion with arbitrary fork ids
\* Fork ids a client can send: the id of a fork an optimize run created
\* (and deleted before it answered), and an id no fork ever had.
ForkIdsSent == {"svc1", "never-created"}

\* POST /api/optimize/promote with a fork id and a change list; the
\* promotions observed carry the same change list and any of the fork ids.
PromSendForkId(p) ==
  \E forkId \in ForkIdsSent, n \in 0..MaxChanges :
    \E changes \in [1..n -> Statements] :
      /\ \A q \in PromIds : promBody[q] = NoPromBody \/ promBody[q].changes = changes
      /\ PromReceive(p, [forkId |-> forkId, hasChanges |-> TRUE, changes |-> changes])

NextPromoteForkIds ==
  \/ \E p \in PromIds : PromSendForkId(p)
  \/ NextPromote

SpecPromoteForkIds == InitPromoteIdle /\ [][NextPromoteForkIds]_vars

\* The answers and production states a promotion of `changes` on production
\* state db can end with, whatever the fork id: a failed answer leaves db
\* as it is, the successful one adds what the statements create.
Failed(msg, db) ==
  <<[status |-> 500, success |-> FALSE, appliedChanges |-> NoCount, message |-> msg], db>>

AllSucceed(changes) == \A k \in 1..Len(changes) : changes[k] # "INVALID SQL"

FirstInvalid(changes) ==
  changes[CHOOSE k \in 1..Len(changes) :
            /\ changes[k] = "INVALID SQL"
            /\ \A j \in 1..(k - 1) : changes[j] # "INVALID SQL"]

PromoteOutcomes(changes, db, pool) ==
  IF ~pool THEN {Failed("Main database pool not initialized", db)}
  ELSE {Failed("connect failed", db), Failed("BEGIN failed", db),
        Failed("ROLLBACK failed", db)}
       \cup (IF AllSucceed(changes)
             THEN {Failed("COMMIT failed", db),
                   <<[status |-> 200, success |-> TRUE, appliedChanges |-> Len(changes),
                      message |-> "Changes promoted to production successfully"],
                     db \cup UNION {Creates(changes[k]) : k \in 1..Len(changes)}>>}
             ELSE {Failed(FirstInvalid(changes), db)})

\* C38: the answer of promoteFork(forkId, changes) and its effect on
\* production depend on `changes` and the database state only, not on
\* forkId: a promotion ends with one of the outcomes its change list has on
\* the production state it started from, whether the id names a fork that
\* existed or one that never did.
C38_ForkIdIgnored ==
  [][\A p \in PromIds :
       (/\ promPc[p] # "done"
        /\ promPc'[p] = "done"
        /\ promBody[p].forkId # ""
        /\ promBody[p].hasChanges)
       => <<promResponse'[p], prodDb'>>
            \in PromoteOutcomes(promBody[p].changes, prodDb, databaseUrl)]_vars

\* Two promotions of the same change list, one for svc1 and one for an id
\* no fork ever had, were both applied to production.
C38_Witness ==
  /\ promBody[1].forkId = "svc1"
  /\ promBody[2].forkId = "never-created"
  /\ promBody[1].changes = promBody[2].changes
  /\ Len(promBody[1].changes) > 0
  /\ \A p \in PromIds : promPc[p] = "done" /\ promResponse[p].status = 200
  /\ promResponse[1] = promResponse[2]
  /\ "a" \in prodDb


\* C39: the optimize route calls createFork only for selected strategies
\* that have an agent implementation: the k-th fork of a run belongs to
\* its k-th strategy, and that strategy is one strategyMap knows, so no
\* fork is provisioned that no agent will run against.
C39_ForkOnlyForKnownStrategy ==
  \A r \in active :
    \A k \in 1..Len(createdForks[r]) :
      strategyMap(selectedStrategies[r][k]) # "undefined"

\* A fork of the provider was created for a strategy without an agent
ProviderForkForUnknownStrategy ==
  \E r \in active :
    \E k \in 1..Len(createdForks[r]) :
      /\ strategyMap(selectedStrategies[r][k]) = "undefined"
      /\ ~createdForks[r][k].isDemoMode
      /\ k \notin constructed[r]

\* Every fork the run created for a known strategy got its agent
KnownStrategyForkGetsAgent ==
  \A r \in active :
    \A k \in 1..Len(createdForks[r]) :
      (strategyMap(selectedStrategies[r][k]) # "undefined" /\ (k < i[r] \/ pc[r] # "createFork"))
        => k \in constructed[r]

====
